---- MODULE Spec2Model ----
(***************************************************************************)
(* Model of lipy-dexdump (linkedin.dexdump): the ByteStream reader, the    *)
(* DexParser sessions with their class-level pools, JUnit3/JUnit4 test     *)
(* discovery, and the APK front ends DexParser.parse / AXMLParser.parse.   *)
(*                                                                         *)
(* Strings are sequences of one-character strings, so that slicing,        *)
(* replacing and substring tests are computed as the code computes them.   *)
(***************************************************************************)
EXTENDS Integers, Sequences, FiniteSets, Bags, TLC

VARIABLES
    files,                \* the dex files on disk, by name (the program only reads them)
    parsers,              \* live DexParser objects: name -> [file, filters, super_cache]
    Item_string_ids,      \* DexParser.Item._string_ids (class attribute): dex whose pool is installed
    Item_type_ids,        \* DexParser.Item._type_ids (class attribute)
    default_descriptors,  \* the list object bound to find_junit3_tests' default argument
    tempdirs,             \* number of scratch directories that exist on disk
    last,                 \* the last call: its input, its outcome and what it returned
    leb,                  \* a ByteStream positioned in a buffer, inside read_leb128
    stream                \* a ByteStream over a file: the bytes, the cursor, the last read

vars == <<files, parsers, Item_string_ids, Item_type_ids, default_descriptors, tempdirs, last, leb, stream>>

(***************************************************************************)
(* Bounds of the model.                                                    *)
(***************************************************************************)
MaxDescriptors == 6   \* find_junit3_tests is not called once the default list is this long
MaxScratch == 2       \* parse is not called once this many scratch directories leaked
MaxBuf == 6           \* length of the byte buffers read_leb128 is run over
MaxStream == 8        \* length of the files the other ByteStream reads are run over
MaxName == 5          \* length of the longest binary name _descriptor2name is run over
MaxTags == 5          \* length of the longest list of tag records a tree is built from
MaxFill == 4          \* length of the longest mixed run of bytes after an EncodedValue header
MaxPayload == 9       \* length of the longest run of zero bytes after an EncodedValue header
MaxString == 258      \* length of the longest string read_string is run over

(***************************************************************************)
(* Strings.                                                                *)
(***************************************************************************)
InstrumentationTestCase ==
    <<"L","a","n","d","r","o","i","d","/","t","e","s","t","/","I","n","s","t","r","u","m","e","n","t","a","t","i","o","n","T","e","s","t","C","a","s","e",";">>
AndroidTestCase ==
    <<"L","a","n","d","r","o","i","d","/","t","e","s","t","/","A","n","d","r","o","i","d","T","e","s","t","C","a","s","e",";">>
JunitTestCase ==
    <<"j","u","n","i","t","/","f","r","a","m","e","w","o","r","k","/","T","e","s","t","C","a","s","e",";">>
ActivityInstrumentationTestCase2 ==
    <<"L","a","n","d","r","o","i","d","/","t","e","s","t","/","A","c","t","i","v","i","t","y","I","n","s","t","r","u","m","e","n","t","a","t","i","o","n","T","e","s","t","C","a","s","e","2",";">>
JavaLangObject ==
    <<"L","j","a","v","a","/","l","a","n","g","/","O","b","j","e","c","t",";">>
test_annotation_descriptor ==
    <<"L","o","r","g","/","j","u","n","i","t","/","T","e","s","t",";">>
ignored_annotation_descriptor ==
    <<"L","o","r","g","/","j","u","n","i","t","/","I","g","n","o","r","e",";">>

\* junit3.Junit3Processor.DEFAULT_DESCRIPTORS
DEFAULT_DESCRIPTORS ==
    <<InstrumentationTestCase, AndroidTestCase, JunitTestCase, ActivityInstrumentationTestCase2>>

\* The value a failed lookup or decode stands for (an exception is propagating).
Err == <<"<raise>">>
\* What read_string yields at an offset where the file holds no pooled string.
Garbage == <<"?">>
\* Python's None (and the empty string, which `not x` treats alike).
None == <<>>

Range(s) == {s[i] : i \in DOMAIN s}

\* a in b, for Python strings
IsSubstring(a, b) ==
    \E i \in 0..(Len(b) - Len(a)) : SubSeq(b, i + 1, i + Len(a)) = a

\* s.startswith(prefix)
StartsWith(s, prefix) ==
    Len(s) >= Len(prefix) /\ SubSeq(s, 1, Len(prefix)) = prefix

\* s.endswith(suffix)
EndsWith(s, suffix) ==
    Len(s) >= Len(suffix) /\ SubSeq(s, Len(s) - Len(suffix) + 1, Len(s)) = suffix

\* name[1:-1] alone, the separators left as they are
Descriptor2NameKeepSlash(name) == SubSeq(name, 2, Len(name) - 1)

\* DexParser._descriptor2name: name[1:-1].replace('/', '.')
Descriptor2Name(name) ==
    LET body == SubSeq(name, 2, Len(name) - 1)
    IN  [i \in 1..Len(body) |-> IF body[i] = "/" THEN "." ELSE body[i]]

(***************************************************************************)
(* Dex files.  A file is given by what each decoder reads from it: the     *)
(* header fields, the six ID tables, and, per file offset, the record a    *)
(* decoder started at that offset yields.                                  *)
(***************************************************************************)
DEX_MAGIC == <<100, 101, 120, 10, 48, 51, 53, 0>>       \* 'd','e','x',0x0A,'0','3','5',0x00

ValidHeader == [magic |-> DEX_MAGIC, endian_tag |-> 305419896]

\* classes.dex: a.C extends a.B, a.B extends AndroidTestCase; a.C#testQ is annotated @Test.
ChainDex(class_order) ==
    [ header     |-> ValidHeader,
      string_ids |-> <<256, 320, 384, 448, 512, 576, 640, 704, 768>>,
      cstr       |-> (256 :> <<"L","a","/","B",";">>) @@ (320 :> <<"L","a","/","C",";">>)
                     @@ (384 :> AndroidTestCase) @@ (448 :> JavaLangObject)
                     @@ (512 :> ignored_annotation_descriptor)
                     @@ (576 :> test_annotation_descriptor)
                     @@ (640 :> <<"h","e","l","p">>) @@ (704 :> <<"t","e","s","t","P">>)
                     @@ (768 :> <<"t","e","s","t","Q">>),
      type_ids   |-> <<0, 1, 2, 3, 4, 5>>,
      proto_ids  |-> <<[shorty_index |-> 6, return_type_index |-> 3, parameters_offset |-> 0]>>,
      field_ids  |-> <<>>,
      method_ids |-> << [class_index |-> 0, type_index |-> 0, name_index |-> 7],
                        [class_index |-> 1, type_index |-> 0, name_index |-> 8],
                        [class_index |-> 1, type_index |-> 0, name_index |-> 6] >>,
      class_defs |->
          LET C == [class_index |-> 1, super_class_index |-> 0,
                    annotations_offset |-> 1024, class_data_offset |-> 1100]
              B == [class_index |-> 0, super_class_index |-> 2,
                    annotations_offset |-> 0, class_data_offset |-> 1120]
          IN  IF class_order = "CB" THEN <<C, B>> ELSE <<B, C>>,
      class_data |-> (1100 :> [virtual_methods |-> <<1, 2>>])
                     @@ (1120 :> [virtual_methods |-> <<0>>]),
      annotations_directories |->
          (1024 :> [method_annotations |-> <<[index |-> 1, annotations_offset |-> 1200]>>]),
      annotation_sets  |-> (1200 :> <<1300>>),
      annotation_items |-> (1300 :> [type_index |-> 5]) ]

\* classes2.dex: another pool layout; b.D extends a.B (a class of classes.dex), java.lang.Object
\* has no superclass; b.D's methods carry @Test, @Ignore and an unrelated annotation.
Junit4Dex ==
    [ header     |-> ValidHeader,
      string_ids |-> <<256, 320, 384, 448, 512, 576, 640, 704, 768, 832, 896, 960>>,
      cstr       |-> (256 :> <<"L","a","/","B",";">>) @@ (320 :> <<"L","b","/","D",";">>)
                     @@ (384 :> JavaLangObject)
                     @@ (448 :> ignored_annotation_descriptor)
                     @@ (512 :> test_annotation_descriptor)
                     @@ (576 :> <<"L","x","/","O",";">>)
                     @@ (640 :> <<"r","u","n","A">>) @@ (704 :> <<"r","u","n","B">>)
                     @@ (768 :> <<"r","u","n","C">>) @@ (832 :> <<"r","u","n","D">>)
                     @@ (896 :> <<"r","u","n","E">>) @@ (960 :> <<"t","e","s","t","R">>),
      type_ids   |-> <<1, 0, 2, 3, 4, 5>>,
      proto_ids  |-> <<[shorty_index |-> 6, return_type_index |-> 2, parameters_offset |-> 0]>>,
      field_ids  |-> <<>>,
      method_ids |-> << [class_index |-> 0, type_index |-> 0, name_index |-> 6],
                        [class_index |-> 0, type_index |-> 0, name_index |-> 7],
                        [class_index |-> 0, type_index |-> 0, name_index |-> 8],
                        [class_index |-> 0, type_index |-> 0, name_index |-> 9],
                        [class_index |-> 0, type_index |-> 0, name_index |-> 10],
                        [class_index |-> 0, type_index |-> 0, name_index |-> 10],
                        [class_index |-> 0, type_index |-> 0, name_index |-> 11] >>,
      class_defs |->
          << [class_index |-> 2, super_class_index |-> -1,
              annotations_offset |-> 0, class_data_offset |-> 1120],
             [class_index |-> 0, super_class_index |-> 1,
              annotations_offset |-> 1024, class_data_offset |-> 1100] >>,
      class_data |-> (1100 :> [virtual_methods |-> <<6, 0>>])
                     @@ (1120 :> [virtual_methods |-> <<>>]),
      annotations_directories |->
          (1024 :> [method_annotations |->
                      << [index |-> 0, annotations_offset |-> 1200],
                         [index |-> 1, annotations_offset |-> 1210],
                         [index |-> 2, annotations_offset |-> 1220],
                         [index |-> 3, annotations_offset |-> 1230],
                         [index |-> 4, annotations_offset |-> 1240],
                         [index |-> 5, annotations_offset |-> 1250],
                         [index |-> 6, annotations_offset |-> 0] >>]),
      annotation_sets  |-> (1200 :> <<1300>>) @@ (1210 :> <<1310, 1300, 1320>>)
                           @@ (1220 :> <<1320>>) @@ (1230 :> <<1310>>)
                           @@ (1240 :> <<1300>>) @@ (1250 :> <<1320>>),
      annotation_items |-> (1300 :> [type_index |-> 4]) @@ (1310 :> [type_index |-> 5])
                           @@ (1320 :> [type_index |-> 3]) ]

\* nodata.dex: classes.dex, but a.B has no class data (class_data_offset is 0) and what
\* stands at offset 0 of the file, the header, does not decode as class data.
NoDataDex == [ChainDex("CB") EXCEPT !.class_defs[2].class_data_offset = 0]

\* nodata_names.dex: as nodata.dex, but what stands at offset 0 decodes as class data
\* with two virtual methods.
NoDataNamesDex == [NoDataDex EXCEPT !.class_data = @ @@ (0 :> [virtual_methods |-> <<0, 2>>])]

\* noentry.dex: classes.dex, but the annotation set of a.C#testQ has an entry whose
\* annotation_offset is 0 before its @Test entry; what stands at offset 0 does not
\* decode as an annotation item.
NoEntryDex == [ChainDex("CB") EXCEPT !.annotation_sets = (1200 :> <<0, 1300>>)]

OffsetDexNames == {"nodata.dex", "nodata_names.dex", "noentry.dex"}
GoodDexNames == {"classes.dex", "classes_bc.dex", "classes2.dex"}
BadDexNames == {"v036.dex", "dey.dex", "nonewline.dex", "nozero.dex", "bigendian.dex"}
DexNames == GoodDexNames \cup BadDexNames
NoFile == "<none>"

\* The dex files the sessions are run over, by name.
DexFiles ==
    [ name \in DexNames \cup OffsetDexNames |->
        CASE name = "classes.dex"    -> ChainDex("CB")
          [] name = "nodata.dex"       -> NoDataDex
          [] name = "nodata_names.dex" -> NoDataNamesDex
          [] name = "noentry.dex"      -> NoEntryDex
          [] name = "classes_bc.dex" -> ChainDex("BC")
          [] name = "classes2.dex"   -> Junit4Dex
          [] name = "v036.dex"       ->
                [ChainDex("CB") EXCEPT !.header.magic = <<100, 101, 120, 10, 48, 51, 54, 0>>]
          [] name = "dey.dex"        ->
                [ChainDex("CB") EXCEPT !.header.magic = <<100, 101, 121, 10, 48, 51, 53, 0>>]
          [] name = "nonewline.dex"  ->
                [ChainDex("CB") EXCEPT !.header.magic = <<100, 101, 120, 13, 48, 51, 53, 0>>]
          [] name = "nozero.dex"     ->
                [ChainDex("CB") EXCEPT !.header.magic = <<100, 101, 120, 10, 48, 51, 53, 10>>]
          [] name = "bigendian.dex"  ->
                [ChainDex("CB") EXCEPT !.header.endian_tag = 2018915346] ]

Dex(name) == files[name]

(***************************************************************************)
(* Header (DexParser.DexMagic, DexParser.Header).                          *)
(***************************************************************************)
EXPECTED_DEX == <<100, 101, 120>>
EXPECTED_VERSION == <<48, 51, 53>>
EXPECTED_ENDIAN_TAG == 305419896

\* A mutant of DexMagic.validate: the version bytes are not compared.
DexMagic_validate_AnyVersion(magic) ==
    /\ SubSeq(magic, 1, 3) = EXPECTED_DEX
    /\ magic[4] = 10
    /\ magic[8] = 0

\* DexMagic.validate
DexMagic_validate(magic) ==
    /\ SubSeq(magic, 1, 3) = EXPECTED_DEX
    /\ magic[4] = 10
    /\ SubSeq(magic, 5, 7) = EXPECTED_VERSION
    /\ magic[8] = 0

\* Header.validate: the exception it raises, or "ok"
Header_validate(header) ==
    IF ~DexMagic_validate(header.magic) THEN "FormatException"
    ELSE IF header.endian_tag # EXPECTED_ENDIAN_TAG THEN "FormatException"
    ELSE "ok"

\* The classes whose tables DexParser.__init__ decodes, in the order of its loop.
ID_TABLES ==
    <<"StringIdItem", "TypeIdItem", "ProtoIdItem", "FieldIdItem", "MethodIdItem", "ClassDefItem">>

NoParser == [file |-> NoFile, filters |-> <<>>, super_cache |-> <<>>]

NewParser(file, package_names) ==
    [ file        |-> file,
      filters     |-> package_names,       \* package_names or []
      super_cache |-> [k \in 1..Len(Dex(file).class_defs) |-> None] ]

\* DexParser.__init__ after self._headers.validate() ended as v: the outcome, the
\* tables decoded, the class-level pools afterwards and the parser object.
DecodeTables(file, package_names, s_ids, t_ids, v) ==
    IF v # "ok"
    THEN [ status |-> v, decoded |-> <<>>, string_ids |-> s_ids, type_ids |-> t_ids,
           parser |-> NoParser ]
    ELSE [ status |-> "ok", decoded |-> ID_TABLES, string_ids |-> file, type_ids |-> file,
           parser |-> NewParser(file, package_names) ]

\* DexParser.__init__
DexParser_init(file, package_names, s_ids, t_ids) ==
    DecodeTables(file, package_names, s_ids, t_ids, Header_validate(Dex(file).header))

(***************************************************************************)
(* Descriptor resolution.  bs is the file of the item's own ByteStream;    *)
(* tpool and spool are the files whose TypeIdItem and StringIdItem lists   *)
(* are installed in the class attributes at the time of the lookup.        *)
(***************************************************************************)
\* Position (1-based) of list[i] in Python, 0 when it raises IndexError.
PyIndex(list, i) ==
    IF 0 <= i /\ i < Len(list) THEN i + 1
    ELSE IF -Len(list) <= i /\ i < 0 THEN Len(list) + i + 1
    ELSE 0

\* ByteStream.parse_descriptor: seek to data_offset, skip the LEB128, read the string
ParseDescriptor(bs, data_offset) ==
    IF data_offset \in DOMAIN Dex(bs).cstr THEN Dex(bs).cstr[data_offset] ELSE Garbage

\* DescribableItem.descriptor
Descriptor(bs, type_index, tpool, spool) ==
    LET t == PyIndex(Dex(tpool).type_ids, type_index)
    IN  IF t = 0 THEN Err
        ELSE LET s == PyIndex(Dex(spool).string_ids, Dex(tpool).type_ids[t])
             IN  IF s = 0 THEN Err ELSE ParseDescriptor(bs, Dex(spool).string_ids[s])

\* ClassDefItem.super_type().descriptor: TypeIdItem.descriptor of the installed TypeIdItem,
\* which reads through the ByteStream of the parser that made that TypeIdItem.
SuperTypeDescriptor(super_class_index, tpool, spool) ==
    LET t == PyIndex(Dex(tpool).type_ids, super_class_index)
    IN  IF t = 0 THEN Err
        ELSE LET s == PyIndex(Dex(spool).string_ids, Dex(tpool).type_ids[t])
             IN  IF s = 0 THEN Err ELSE ParseDescriptor(tpool, Dex(spool).string_ids[s])

\* ByteStream.parse_method_name, of method_ids[index] of the parser's own method table
MethodName(bs, index, spool) ==
    LET m == PyIndex(Dex(bs).method_ids, index)
    IN  IF m = 0 THEN Err
        ELSE LET s == PyIndex(Dex(spool).string_ids, Dex(bs).method_ids[m].name_index)
             IN  IF s = 0 THEN Err ELSE ParseDescriptor(bs, Dex(spool).string_ids[s])

\* The descriptor find_classes_directly_inherited_from appends: through self._ids.
OwnDescriptor(bs, class_def) ==
    LET t == PyIndex(Dex(bs).type_ids, class_def.class_index)
        s == PyIndex(Dex(bs).string_ids, Dex(bs).type_ids[t])
    IN  ParseDescriptor(bs, Dex(bs).string_ids[s])


(***************************************************************************)
(* JUnit3 discovery.                                                       *)
(***************************************************************************)
\* ClassDefItem.super_descriptor(): the cached value when there is one, else the
\* descriptor of super_type()
super_descriptor(class_def, cached, tpool, spool) ==
    IF cached # None THEN cached
    ELSE SuperTypeDescriptor(class_def.super_class_index, tpool, spool)

\* return desc in descriptors, and what the class def caches
DescIn(desc, cached, descriptors) ==
    IF desc = Err
    THEN [status |-> "raised", value |-> FALSE, cached |-> cached]
    ELSE [status |-> "ok", value |-> desc \in descriptors, cached |-> desc]

\* ClassDefItem.has_direct_super_class
has_direct_super_class(class_def, cached, descriptors, tpool, spool) ==
    IF class_def.super_class_index < 0
    THEN [status |-> "ok", value |-> FALSE, cached |-> cached]
    ELSE DescIn(super_descriptor(class_def, cached, tpool, spool), cached, descriptors)

\* [c for c in self._ids[ClassDefItem] if c.has_direct_super_class(fixed_set)], from the
\* k-th class def on: the positions kept so far are in acc.  FilterKeep takes the
\* outcome h of has_direct_super_class for the k-th class def.
RECURSIVE FilterClasses(_, _, _, _, _, _, _)
RECURSIVE FilterKeep(_, _, _, _, _, _, _, _)
FilterKeep(bs, k, cache, acc, descriptors, tpool, spool, h) ==
    IF h.status # "ok"
    THEN [status |-> "raised", matching |-> <<>>, cache |-> cache]
    ELSE FilterClasses(bs, k + 1, [cache EXCEPT ![k] = h.cached],
                       IF h.value THEN Append(acc, k) ELSE acc,
                       descriptors, tpool, spool)

FilterClasses(bs, k, cache, acc, descriptors, tpool, spool) ==
    IF k > Len(Dex(bs).class_defs)
    THEN [status |-> "ok", matching |-> acc, cache |-> cache]
    ELSE FilterKeep(bs, k, cache, acc, descriptors, tpool, spool,
                    has_direct_super_class(Dex(bs).class_defs[k], cache[k], descriptors,
                                           tpool, spool))

\* A mutant of fixed_set = set(descriptors): the set also holds the classes the loop is
\* going to add, so that a second inheritance hop is followed.
fixed_set_Growing(bs, descriptors) ==
    Range(descriptors) \cup
        { OwnDescriptor(bs, Dex(bs).class_defs[k]) : k \in
            { j \in 1..Len(Dex(bs).class_defs) :
                /\ Dex(bs).class_defs[j].super_class_index >= 0
                /\ OwnDescriptor(bs, [class_index |-> Dex(bs).class_defs[j].super_class_index])
                       \in Range(descriptors) } }

\* fixed_set = set(descriptors)
fixed_set(bs, descriptors) == Range(descriptors)

\* The body of the loop of find_classes_directly_inherited_from over the class defs f
\* kept by the filter: each is recorded and its own descriptor is appended to the list.
RecordClasses(bs, descriptors, f) ==
    IF f.status # "ok"
    THEN [ status |-> "raised", matching |-> <<>>, descriptors |-> descriptors,
           super_cache |-> f.cache ]
    ELSE [ status |-> "ok", matching |-> f.matching,
           descriptors |-> descriptors \o
               [i \in 1..Len(f.matching) |-> OwnDescriptor(bs, Dex(bs).class_defs[f.matching[i]])],
           super_cache |-> f.cache ]

\* DexParser.find_classes_directly_inherited_from: the class defs recorded (positions in
\* the class-def table), the caller's list afterwards, the class defs' caches afterwards.
find_classes_directly_inherited_from(bs, cache, descriptors, tpool, spool) ==
    RecordClasses(bs, descriptors,
                  FilterClasses(bs, 1, cache, <<>>, fixed_set(bs, descriptors), tpool, spool))

\* [m.method_name(method_ids) for m in class_data.virtual_methods]
VirtualMethodNames(bs, vm, spool) ==
    [i \in 1..Len(vm) |-> MethodName(bs, vm[i], spool)]

\* DexParser.find_method_names: <<Err>> when the class data cannot be decoded
find_method_names(bs, class_def, spool) ==
    IF class_def.class_data_offset \notin DOMAIN Dex(bs).class_data
    THEN <<Err>>
    ELSE VirtualMethodNames(bs, Dex(bs).class_data[class_def.class_data_offset].virtual_methods,
                            spool)

\* The filter test of find_junit3_tests (the class is skipped when this is false).
Junit3Admits(dot_sep_name, package_filters) ==
    ~ ( /\ package_filters # <<>>
        /\ \A i \in 1..Len(package_filters) : ~IsSubstring(dot_sep_name, package_filters[i]) )

\* A mutant of the filter test of find_junit4_tests: the direction of find_junit3_tests.
Junit4AdmitsReversed(dot_sep_name, package_filters) ==
    Junit3Admits(dot_sep_name, package_filters)

\* A mutant of the filter test of find_junit4_tests: a filter must equal the class name.
Junit4AdmitsExact(dot_sep_name, package_filters) ==
    ~ ( /\ package_filters # <<>>
        /\ \A i \in 1..Len(package_filters) : package_filters[i] # dot_sep_name )

\* The filter test of find_junit4_tests.
Junit4Admits(dot_sep_name, package_filters) ==
    ~ ( /\ package_filters # <<>>
        /\ \A i \in 1..Len(package_filters) : ~IsSubstring(package_filters[i], dot_sep_name) )

\* [m for m in self.find_method_names(class_def) if m.startswith("test")]
TestNames(names) ==
    IF Err \in Range(names) THEN {Err}
    ELSE {m \in Range(names) : StartsWith(m, <<"t","e","s","t">>)}

\* One turn of the loop of find_junit3_tests, for a class whose descriptor resolved to d.
Junit3ClassNamesOf(bs, class_def, package_filters, spool, d) ==
    IF d = Err THEN {Err}
    ELSE IF ~Junit3Admits(Descriptor2Name(d), package_filters) THEN {}
    ELSE TestNames(find_method_names(bs, class_def, spool))

\* What one recorded class contributes to method_names in find_junit3_tests;
\* {Err} when resolving it raises.
Junit3ClassNames(bs, class_def, package_filters, tpool, spool) ==
    Junit3ClassNamesOf(bs, class_def, package_filters, spool,
                       Descriptor(bs, class_def.class_index, tpool, spool))

\* The class whose descriptor resolved to d passes the filter of find_junit3_tests.
Junit3AdmitsDescriptor(d, package_filters) ==
    d # Err /\ Junit3Admits(Descriptor2Name(d), package_filters)

\* The loop of find_junit3_tests over the recorded classes: the method names collected.
Junit3MethodNames(parser, matching, tpool, spool) ==
    UNION { Junit3ClassNames(parser.file, Dex(parser.file).class_defs[matching[i]],
                             parser.filters, tpool, spool)
            : i \in 1..Len(matching) }

\* The recorded classes that pass the filter.
Junit3AdmittedClasses(parser, matching, tpool, spool) ==
    { matching[i] : i \in
        { j \in 1..Len(matching) :
            Junit3AdmitsDescriptor(
                Descriptor(parser.file, Dex(parser.file).class_defs[matching[j]].class_index,
                           tpool, spool),
                parser.filters) } }

\* return set(method_names), with what the call did to the list and the caches
Junit3Return(fc, names, admitted) ==
    [ status      |-> IF fc.status = "ok" /\ Err \notin names THEN "ok" ELSE "raised",
      result      |-> IF fc.status = "ok" /\ Err \notin names THEN names ELSE {},
      matching    |-> fc.matching,
      admitted    |-> admitted,
      descriptors |-> fc.descriptors,
      super_cache |-> fc.super_cache ]

\* find_junit3_tests after test_classes = find_classes_directly_inherited_from(...)
Junit3Loop(parser, fc, tpool, spool) ==
    Junit3Return(fc, Junit3MethodNames(parser, fc.matching, tpool, spool),
                 Junit3AdmittedClasses(parser, fc.matching, tpool, spool))

\* DexParser.find_junit3_tests(descriptors)
find_junit3_tests(parser, descriptors, tpool, spool) ==
    Junit3Loop(parser,
               find_classes_directly_inherited_from(parser.file, parser.super_cache,
                                                    descriptors, tpool, spool),
               tpool, spool)


(***************************************************************************)
(* JUnit4 discovery.                                                       *)
(***************************************************************************)
\* The inner loop of get_methods_with_annotation over the entries of one annotation set,
\* from the i-th entry on: "match" (the loop breaks), "nomatch", or "raised".
\* ScanEntry takes the descriptor d of the i-th entry.
RECURSIVE ScanEntries(_, _, _, _, _, _)
RECURSIVE ScanEntry(_, _, _, _, _, _, _)
ScanEntry(bs, entries, i, target_descriptor, tpool, spool, d) ==
    IF d = Err THEN "raised"
    ELSE IF d = target_descriptor THEN "match"
    ELSE ScanEntries(bs, entries, i + 1, target_descriptor, tpool, spool)

ScanEntries(bs, entries, i, target_descriptor, tpool, spool) ==
    IF i > Len(entries) THEN "nomatch"
    ELSE IF entries[i] \notin DOMAIN Dex(bs).annotation_items THEN "raised"
    ELSE ScanEntry(bs, entries, i, target_descriptor, tpool, spool,
                   Descriptor(bs, Dex(bs).annotation_items[entries[i]].type_index, tpool, spool))

\* results.append(annotation.method_name(method_ids)) when the scan found a match
AppendIfMatch(bs, annotation, spool, scan) ==
    IF scan = "raised" THEN {Err}
    ELSE IF scan = "match" THEN {MethodName(bs, annotation.index, spool)}
    ELSE {}

\* One turn of the outer loop of get_methods_with_annotation: the names it appends
\* for one method annotation; {Err} when it raises.
MethodAnnotationNames(bs, annotation, target_descriptor, tpool, spool) ==
    IF annotation.annotations_offset = 0 THEN {}
    ELSE IF annotation.annotations_offset \notin DOMAIN Dex(bs).annotation_sets THEN {Err}
    ELSE AppendIfMatch(bs, annotation, spool,
                       ScanEntries(bs, Dex(bs).annotation_sets[annotation.annotations_offset], 1,
                                   target_descriptor, tpool, spool))

\* AnnotationsDirectoryItem.get_methods_with_annotation
get_methods_with_annotation(bs, directory, target_descriptor, tpool, spool) ==
    UNION { MethodAnnotationNames(bs, directory.method_annotations[i], target_descriptor,
                                  tpool, spool)
            : i \in 1..Len(directory.method_annotations) }

\* dot_sep_name + "#" + name
Qualified(dot_sep_name, name) == dot_sep_name \o <<"#">> \o name

\* A mutant of the result line of find_junit4_tests: ignored names are not removed.
Junit4EmitAll(dot_sep_name, names, ignored_names) ==
    { Qualified(dot_sep_name, name) : name \in names }

\* [dot_sep_name + "#" + name for name in names if name not in ignored_names]
Junit4Emit(dot_sep_name, names, ignored_names) ==
    { Qualified(dot_sep_name, name) : name \in names \ ignored_names }

\* result += [...], given the two name lists
Junit4Result(dot_sep_name, names, ignored_names) ==
    IF Err \in names \cup ignored_names THEN {Err}
    ELSE Junit4Emit(dot_sep_name, names, ignored_names)

\* The two calls of get_methods_with_annotation on the directory of a class.
Junit4DirectoryTests(bs, dot_sep_name, directory, tpool, spool) ==
    Junit4Result(dot_sep_name,
                 get_methods_with_annotation(bs, directory, test_annotation_descriptor,
                                             tpool, spool),
                 get_methods_with_annotation(bs, directory, ignored_annotation_descriptor,
                                             tpool, spool))

\* One turn of the loop of find_junit4_tests, for a class whose descriptor resolved to d.
Junit4ClassTestsOf(bs, class_def, package_filters, tpool, spool, d) ==
    IF d = Err THEN {Err}
    ELSE IF ~Junit4Admits(Descriptor2Name(d), package_filters) THEN {}
    ELSE IF class_def.annotations_offset \notin DOMAIN Dex(bs).annotations_directories
    THEN {Err}
    ELSE Junit4DirectoryTests(bs, Descriptor2Name(d),
                              Dex(bs).annotations_directories[class_def.annotations_offset],
                              tpool, spool)

\* What one class def contributes to result in find_junit4_tests; {Err} when it raises.
Junit4ClassTests(bs, class_def, package_filters, tpool, spool) ==
    Junit4ClassTestsOf(bs, class_def, package_filters, tpool, spool,
                       Descriptor(bs, class_def.class_index, tpool, spool))

\* The class defs find_junit4_tests iterates over (positions in the class-def table).
AnnotatedClassDefs(bs) ==
    { k \in 1..Len(Dex(bs).class_defs) : Dex(bs).class_defs[k].annotations_offset # 0 }

\* The class whose descriptor resolved to d passes the filter of find_junit4_tests.
Junit4AdmitsDescriptor(d, package_filters) ==
    d # Err /\ Junit4Admits(Descriptor2Name(d), package_filters)

\* The annotated classes that pass the filter.
Junit4AdmittedClasses(parser, tpool, spool) ==
    { k \in AnnotatedClassDefs(parser.file) :
        Junit4AdmitsDescriptor(
            Descriptor(parser.file, Dex(parser.file).class_defs[k].class_index, tpool, spool),
            parser.filters) }

\* return set(result)
Junit4Return(tests, admitted) ==
    [ status   |-> IF Err \in tests THEN "raised" ELSE "ok",
      result   |-> IF Err \in tests THEN {} ELSE tests,
      admitted |-> admitted ]

\* DexParser.find_junit4_tests
find_junit4_tests(parser, tpool, spool) ==
    Junit4Return(UNION { Junit4ClassTests(parser.file, Dex(parser.file).class_defs[k],
                                          parser.filters, tpool, spool)
                         : k \in AnnotatedClassDefs(parser.file) },
                 Junit4AdmittedClasses(parser, tpool, spool))


(***************************************************************************)
(* Parser sessions: two parser objects, A and B, used by one thread.       *)
(***************************************************************************)
Parsers == {"A", "B"}

\* The package_names lists the callers pass (None and [] are alike: package_names or []).
FilterLists ==
    { <<>>,
      << <<"a">> >>,
      << <<"a",".","B","N">> >>,
      << <<"z">>, <<"b",".","D">> >> }

\* The lists callers pass to find_classes_directly_inherited_from.
CallerDescriptors ==
    { <<AndroidTestCase>>,
      << <<"L","a","/","B",";">> >>,
      << <<"L","x","/","O",";">>, test_annotation_descriptor, AndroidTestCase >> }

\* The constructor calls of a session with two parsers: no package filter is given.
ConstructInputs == Parsers \X DexNames \X {<<>>}

\* The constructor calls of a session with one parser and package filters.
FilteredConstructInputs == {"A"} \X GoodDexNames \X FilterLists

\* No ByteStream is open.
StreamIdle == [buf |-> <<>>, start |-> 0, pos |-> 0, op |-> "none", status |-> "idle"]

LebIdle == [buf |-> <<>>, start |-> 0, pos |-> 0, status |-> "idle", value |-> [hi |-> 0, lo |-> 0]]

Init ==
    /\ files = DexFiles
    /\ parsers = [p \in Parsers |-> NoParser]
    /\ Item_string_ids = NoFile
    /\ Item_type_ids = NoFile
    /\ default_descriptors = DEFAULT_DESCRIPTORS
    /\ tempdirs = 0
    /\ last = [op |-> "none"]
    /\ leb = LebIdle
    /\ stream = StreamIdle

\* p = DexParser(file, package_names), r being what the constructor did
Constructed(p, file, r) ==
    /\ parsers' = IF r.status = "ok" THEN [parsers EXCEPT ![p] = r.parser] ELSE parsers
    /\ Item_string_ids' = r.string_ids
    /\ Item_type_ids' = r.type_ids
    /\ last' = [ op |-> "DexParser", parser |-> p, file |-> file,
                 status |-> r.status, decoded |-> r.decoded ]

\* p = DexParser(file, package_names)
Construct(p, file, package_names) ==
    /\ Constructed(p, file,
                   DexParser_init(file, package_names, Item_string_ids, Item_type_ids))
    /\ UNCHANGED <<files, default_descriptors, tempdirs, leb, stream>>

\* p.find_junit3_tests(), r being what the call did
FoundJunit3Tests(p, r) ==
    /\ parsers' = [parsers EXCEPT ![p].super_cache = r.super_cache]
    /\ default_descriptors' = r.descriptors
    /\ last' = [ op |-> "find_junit3_tests", parser |-> p, file |-> parsers[p].file,
                 status |-> r.status, result |-> r.result, matching |-> r.matching,
                 admitted |-> r.admitted, before |-> default_descriptors,
                 after |-> r.descriptors ]

\* p.find_junit3_tests(), with the default descriptors
FindJunit3Tests(p) ==
    /\ parsers[p].file # NoFile
    /\ Len(default_descriptors) < MaxDescriptors
    /\ FoundJunit3Tests(p, find_junit3_tests(parsers[p], default_descriptors,
                                             Item_type_ids, Item_string_ids))
    /\ UNCHANGED <<files, Item_string_ids, Item_type_ids, tempdirs, leb, stream>>

\* p.find_classes_directly_inherited_from(descriptors), r being what the call did
FoundClasses(p, descriptors, r) ==
    /\ parsers' = [parsers EXCEPT ![p].super_cache = r.super_cache]
    /\ last' = [ op |-> "find_classes_directly_inherited_from", parser |-> p,
                 file |-> parsers[p].file, status |-> r.status,
                 matching |-> r.matching, before |-> descriptors,
                 after |-> r.descriptors ]

\* p.find_classes_directly_inherited_from(descriptors), with a list of the caller
FindClasses(p, descriptors) ==
    /\ parsers[p].file # NoFile
    /\ FoundClasses(p, descriptors,
                    find_classes_directly_inherited_from(parsers[p].file, parsers[p].super_cache,
                                                         descriptors, Item_type_ids,
                                                         Item_string_ids))
    /\ UNCHANGED <<files, Item_string_ids, Item_type_ids, default_descriptors, tempdirs, leb, stream>>

\* p.find_junit4_tests(), r being what the call did
FoundJunit4Tests(p, r) ==
    last' = [ op |-> "find_junit4_tests", parser |-> p, file |-> parsers[p].file,
              status |-> r.status, result |-> r.result, admitted |-> r.admitted ]

\* p.find_junit4_tests()
FindJunit4Tests(p) ==
    /\ parsers[p].file # NoFile
    /\ FoundJunit4Tests(p, find_junit4_tests(parsers[p], Item_type_ids, Item_string_ids))
    /\ UNCHANGED <<files, parsers, Item_string_ids, Item_type_ids, default_descriptors, tempdirs, leb, stream>>

Next ==
    \/ \E in \in ConstructInputs : Construct(in[1], in[2], in[3])
    \/ \E p \in Parsers : FindJunit3Tests(p)
    \/ \E p \in Parsers, descriptors \in CallerDescriptors : FindClasses(p, descriptors)
    \/ \E p \in Parsers : FindJunit4Tests(p)

Spec == Init /\ [][Next]_vars

\* Sessions of one parser that is given package filters.
NextFiltered ==
    \/ \E in \in FilteredConstructInputs : Construct(in[1], in[2], in[3])
    \/ FindJunit3Tests("A")
    \/ FindJunit4Tests("A")

SpecFiltered == Init /\ [][NextFiltered]_vars

\* The constructor calls of a session with one parser over files with offsets of 0.
OffsetConstructInputs == {"A"} \X (OffsetDexNames \cup {"classes2.dex"}) \X FilterLists

\* Sessions of one parser over files in which an offset is 0.
NextOffsets ==
    \/ \E in \in OffsetConstructInputs : Construct(in[1], in[2], in[3])
    \/ FindJunit3Tests("A")
    \/ FindJunit4Tests("A")

SpecOffsets == Init /\ [][NextOffsets]_vars


(***************************************************************************)
(* The APK front ends.  An APK is given by whether it opens as a ZIP and   *)
(* by its entries in archive order: the entry's name, whether extracting   *)
(* it succeeds, and the file it extracts to.                               *)
(***************************************************************************)
ClassesDexName == <<"c","l","a","s","s","e","s",".","d","e","x">>
Classes2DexName == <<"c","l","a","s","s","e","s","2",".","d","e","x">>
ManifestName ==
    <<"A","n","d","r","o","i","d","M","a","n","i","f","e","s","t",".","x","m","l">>
DotDex == <<".","d","e","x">>

ManifestEntry(axml) ==
    [filename |-> ManifestName, extractable |-> TRUE, dex |-> NoFile, axml |-> axml]
DexEntry(filename, dex) ==
    [filename |-> filename, extractable |-> TRUE, dex |-> dex, axml |-> "none"]

ApkNames ==
    {"test.apk", "one.apk", "twice.apk", "notazip.apk", "v036.apk", "crc.apk", "badxml.apk"}

Apks ==
    [ name \in ApkNames |->
        CASE name = "test.apk" ->
                [ zip_ok |-> TRUE,
                  entries |-> << ManifestEntry("ok"), DexEntry(ClassesDexName, "classes.dex"),
                                 DexEntry(Classes2DexName, "classes2.dex") >> ]
          [] name = "one.apk" ->
                [ zip_ok |-> TRUE,
                  entries |-> << DexEntry(ClassesDexName, "classes2.dex") >> ]
          [] name = "twice.apk" ->
                [ zip_ok |-> TRUE,
                  entries |-> << ManifestEntry("ok"), DexEntry(ClassesDexName, "classes_bc.dex"),
                                 DexEntry(Classes2DexName, "classes.dex") >> ]
          [] name = "notazip.apk" ->
                [ zip_ok |-> FALSE, entries |-> <<>> ]
          [] name = "v036.apk" ->
                [ zip_ok |-> TRUE,
                  entries |-> << ManifestEntry("ok"), DexEntry(ClassesDexName, "classes.dex"),
                                 DexEntry(Classes2DexName, "v036.dex") >> ]
          [] name = "crc.apk" ->
                [ zip_ok |-> TRUE,
                  entries |-> << [ManifestEntry("ok") EXCEPT !.extractable = FALSE],
                                 [DexEntry(ClassesDexName, "classes.dex")
                                      EXCEPT !.extractable = FALSE] >> ]
          [] name = "badxml.apk" ->
                [ zip_ok |-> TRUE,
                  entries |-> << ManifestEntry("malformed"),
                                 DexEntry(ClassesDexName, "classes2.dex") >> ] ]

Apk(name) == Apks[name]

\* tests += list(parser.find_junit3_tests()) + list(parser.find_junit4_tests()), c being
\* the construction of the parser and j3, j4 what the two calls did
CollectTests(st, c, j3, j4) ==
    [ status      |-> IF j3.status = "ok" /\ j4.status = "ok" THEN "ok" ELSE "raised",
      tests       |-> IF j3.status = "ok" /\ j4.status = "ok"
                      THEN st.tests (+) SetToBag(j3.result) (+) SetToBag(j4.result)
                      ELSE st.tests,
      string_ids  |-> c.string_ids,
      type_ids    |-> c.type_ids,
      descriptors |-> j3.descriptors ]

\* The body of the loop of DexParser.parse after parser = DexParser(path, package_names)
\* ended as c.
DiscoverTests(st, c) ==
    IF c.status # "ok"
    THEN [st EXCEPT !.status = c.status, !.string_ids = c.string_ids, !.type_ids = c.type_ids]
    ELSE CollectTests(st, c,
                      find_junit3_tests(c.parser, st.descriptors, c.type_ids, c.string_ids),
                      find_junit4_tests(c.parser, c.type_ids, c.string_ids))

\* The body of the loop of DexParser.parse for one .dex entry: st is the state before
\* it (tests, the class-level pools and the default descriptor list).
ParseOneDex(item, package_names, st) ==
    IF ~item.extractable
    THEN [st EXCEPT !.status = "BadZipFile"]
    ELSE DiscoverTests(st, DexParser_init(item.dex, package_names, st.string_ids, st.type_ids))

\* The loop of DexParser.parse over the entries from the i-th on; it ends at the
\* first exception.
RECURSIVE ParseEntries(_, _, _, _)
ParseEntries(entries, i, package_names, st) ==
    IF i > Len(entries) \/ st.status # "ok" THEN st
    ELSE IF ~EndsWith(entries[i].filename, DotDex)
    THEN ParseEntries(entries, i + 1, package_names, st)
    ELSE ParseEntries(entries, i + 1, package_names,
                      ParseOneDex(entries[i], package_names, st))

\* shutil.rmtree(tempd); return tests: reached only when nothing raised before.
RmtreeAndReturn(st) ==
    [ status       |-> st.status,
      tests        |-> IF st.status = "ok" THEN st.tests ELSE EmptyBag,
      string_ids   |-> st.string_ids,
      type_ids     |-> st.type_ids,
      descriptors  |-> st.descriptors,
      tempd_exists |-> st.status # "ok" ]

\* tempd = tempfile.mkdtemp(); tests = []
ParseStart(s_ids, t_ids, descriptors) ==
    [ status |-> "ok", tests |-> EmptyBag, string_ids |-> s_ids, type_ids |-> t_ids,
      descriptors |-> descriptors ]

\* with zipfile.ZipFile(apk_file_name, mode="r") as zf: the loop over the .dex entries
ParseZip(apk, package_names, st0) ==
    IF ~apk.zip_ok THEN [st0 EXCEPT !.status = "BadZipFile"]
    ELSE ParseEntries(apk.entries, 1, package_names, st0)

\* DexParser.parse
DexParser_parse(apk, package_names, s_ids, t_ids, descriptors) ==
    RmtreeAndReturn(ParseZip(apk, package_names, ParseStart(s_ids, t_ids, descriptors)))

\* The outcome of the with-block of AXMLParser.parse, given the manifest entries.
ManifestStatus(apk, manifests) ==
    IF ~apk.zip_ok THEN "BadZipFile"
    ELSE IF manifests = <<>> THEN "KeyError"
    ELSE IF ~manifests[1].extractable THEN "BadZipFile"
    ELSE IF manifests[1].axml # "ok" THEN "raised"
    ELSE "ok"

\* shutil.rmtree(tempd); return parser: reached only when nothing raised before.
AxmlReturn(status) == [status |-> status, tempd_exists |-> status # "ok"]

\* AXMLParser.parse: tempd = mkdtemp(); with ZipFile(...): extract the manifest, decode
\* it; rmtree(tempd); return parser.
AXMLParser_parse(apk) ==
    AxmlReturn(ManifestStatus(apk,
                   SelectSeq(apk.entries, LAMBDA e : e.filename = ManifestName)))

\* DexParser.parse(apk_file_name, package_names), r being what the call did
DexParsed(name, package_names, r) ==
    /\ Item_string_ids' = r.string_ids
    /\ Item_type_ids' = r.type_ids
    /\ default_descriptors' = r.descriptors
    /\ tempdirs' = IF r.tempd_exists THEN tempdirs + 1 ELSE tempdirs
    /\ last' = [ op |-> "DexParser.parse", apk |-> name, filters |-> package_names,
                 status |-> r.status, result |-> r.tests,
                 tempd_exists |-> r.tempd_exists ]

\* DexParser.parse(apk_file_name, package_names)
DexParse(name, package_names) ==
    /\ tempdirs < MaxScratch
    /\ Len(default_descriptors) < MaxDescriptors
    /\ DexParsed(name, package_names,
                 DexParser_parse(Apk(name), package_names, Item_string_ids, Item_type_ids,
                                 default_descriptors))
    /\ UNCHANGED <<files, parsers, leb, stream>>

\* AXMLParser.parse(apk_file_name), r being what the call did
AxmlParsed(name, r) ==
    /\ tempdirs' = IF r.tempd_exists THEN tempdirs + 1 ELSE tempdirs
    /\ last' = [ op |-> "AXMLParser.parse", apk |-> name, status |-> r.status,
                 tempd_exists |-> r.tempd_exists ]

\* AXMLParser.parse(apk_file_name)
AxmlParse(name) ==
    /\ tempdirs < MaxScratch
    /\ AxmlParsed(name, AXMLParser_parse(Apk(name)))
    /\ UNCHANGED <<files, parsers, Item_string_ids, Item_type_ids, default_descriptors, leb, stream>>

NextApk ==
    \/ \E name \in ApkNames, package_names \in FilterLists : DexParse(name, package_names)
    \/ \E name \in ApkNames : AxmlParse(name)

SpecApk == Init /\ [][NextApk]_vars


(***************************************************************************)
(* ByteStream.read_leb128, over a buffer buf with the cursor at pos        *)
(* (a file position: the next byte read is buf[pos + 1]).                  *)
(***************************************************************************)
ByteVals == {0, 1, 127, 128, 255}

Buffers == UNION { [1..n -> ByteVals] : n \in 0..MaxBuf }

\* Python integers are unbounded and a five-byte LEB128 value has up to 35 bits, which
\* is more than the model checker's integers hold: a value v is written as the pair
\* [hi, lo] with v = hi * 2^28 + lo and 0 <= lo < 2^28.
Wide(hi, lo) == [hi |-> hi, lo |-> lo]

\* a | b on non-negative integers below 2^28
RECURSIVE BitOr(_, _)
BitOr(a, b) ==
    IF a = 0 THEN b
    ELSE IF b = 0 THEN a
    ELSE (IF a % 2 = 1 \/ b % 2 = 1 THEN 1 ELSE 0) + 2 * BitOr(a \div 2, b \div 2)

\* a | b
WideOr(a, b) == Wide(BitOr(a.hi, b.hi), BitOr(a.lo, b.lo))

\* a << n, for a below 2^8 and n a multiple of 7 (the shifts read_leb128 makes)
ShiftLeft(a, n) ==
    IF n >= 28 THEN Wide(a * 2^(n - 28), 0)
    ELSE Wide((a * 2^n) \div 2^28, (a * 2^n) % 2^28)

\* A mutant of the payload mask: the continuation bit is not masked off.
PayloadUnmasked(current) == current

\* current & 0x7f
Payload(current) == current % 128

\* (current & 0x80) == 0
IsLastByte(current) == (current \div 128) % 2 = 0

\* The loop of read_leb128, entered with result and shift.  read_byte at the end of
\* the file indexes an empty bytes object and raises IndexError.
RECURSIVE Leb128Loop(_, _, _, _)
Leb128Loop(buf, pos, result, shift) ==
    IF pos >= Len(buf)
    THEN [status |-> "IndexError", value |-> Wide(0, 0), pos |-> pos]
    ELSE LET current == buf[pos + 1]
             r == WideOr(result, ShiftLeft(Payload(current), shift))
         IN  IF IsLastByte(current)
             THEN [status |-> "ok", value |-> r, pos |-> pos + 1]
             ELSE IF shift + 7 >= 35
             THEN [status |-> "Exception", value |-> Wide(0, 0), pos |-> pos + 1]
             ELSE Leb128Loop(buf, pos + 1, r, shift + 7)

\* ByteStream.read_leb128
read_leb128(buf, pos) == Leb128Loop(buf, pos, Wide(0, 0), 0)

InitLeb ==
    /\ files = DexFiles
    /\ parsers = [p \in Parsers |-> NoParser]
    /\ Item_string_ids = NoFile
    /\ Item_type_ids = NoFile
    /\ default_descriptors = DEFAULT_DESCRIPTORS
    /\ tempdirs = 0
    /\ last = [op |-> "none"]
    /\ \E buf \in Buffers, start \in {0, 1} :
          /\ start <= Len(buf)
          /\ leb = [buf |-> buf, start |-> start, pos |-> start, status |-> "ready", value |-> Wide(0, 0)]
    /\ stream = StreamIdle

\* bytestream.read_leb128()
ReadLeb128 ==
    /\ leb.status = "ready"
    /\ LET r == read_leb128(leb.buf, leb.pos)
       IN  leb' = [leb EXCEPT !.pos = r.pos, !.status = r.status, !.value = r.value]
    /\ UNCHANGED <<files, parsers, Item_string_ids, Item_type_ids, default_descriptors, tempdirs, last, stream>>

NextLeb == ReadLeb128

SpecLeb == InitLeb /\ [][NextLeb]_vars


(***************************************************************************)
(* ByteStream over a file of bytes buf, the cursor at pos (a file          *)
(* position: the next byte read is buf[pos + 1]).  A value struct.unpack   *)
(* returns is kept as its bytes in file order.  The code has no exception  *)
(* class of its own: a failed read surfaces as the IndexError or the       *)
(* struct.error of the failing expression.                                 *)
(***************************************************************************)
StreamByteVals == {0, 65}

StreamBuffers == UNION { [1..n -> StreamByteVals] : n \in 0..MaxStream }

Min(a, b) == IF a <= b THEN a ELSE b

\* self._file.read(count): the bytes from the cursor on, count of them or as many as
\* the file still holds (all of them for a count of -1); the cursor moves past what
\* was returned.
FileRead(buf, pos, count) ==
    [data |-> SubSeq(buf, pos + 1, IF count < 0 THEN Len(buf) ELSE Min(pos + count, Len(buf))),
     pos  |-> IF count >= 0 /\ pos + count <= Len(buf) THEN pos + count
              ELSE IF pos <= Len(buf) THEN Len(buf) ELSE pos]

\* self._file.read(1)[0]
FirstByte(r, pos) ==
    IF Len(r.data) = 0
    THEN [pos |-> r.pos, status |-> "IndexError", value |-> None]
    ELSE [pos |-> r.pos, status |-> "ok", value |-> r.data[1]]

read_byte(buf, pos) == FirstByte(FileRead(buf, pos, 1), pos)

\* An unpack that takes whatever bytes it is given
UnpackAny(size, r) == [pos |-> r.pos, status |-> "ok", value |-> r.data]

\* struct.unpack(fmt, data) for a format of size bytes
Unpack(size, r) ==
    IF Len(r.data) # size
    THEN [pos |-> r.pos, status |-> "struct.error", value |-> None]
    ELSE [pos |-> r.pos, status |-> "ok", value |-> r.data]

read_short(buf, pos) == Unpack(2, FileRead(buf, pos, 2))

read_int(buf, pos) == Unpack(4, FileRead(buf, pos, 4))

read_long_long(buf, pos) == Unpack(8, FileRead(buf, pos, 8))

read_float(buf, pos) == Unpack(4, FileRead(buf, pos, 4))

read_double(buf, pos) == Unpack(8, FileRead(buf, pos, 8))

read_ints(buf, pos, count) == Unpack(count * 4, FileRead(buf, pos, count * 4))

\* bytes(self._file.read(byte_count))
BytesOf(r) == [pos |-> r.pos, status |-> "ok", value |-> r.data]

read_bytes(buf, pos, byte_count) ==
    IF byte_count < -1
    THEN [pos |-> pos, status |-> "ValueError", value |-> None]
    ELSE BytesOf(FileRead(buf, pos, byte_count))

read_fixed_string(buf, pos, byte_count) == Unpack(byte_count, FileRead(buf, pos, byte_count))

\* ByteStream.read(count)
read(buf, pos, count) == BytesOf(FileRead(buf, pos, count))

\* The widths of the fixed-width reads, by operation.
FixedWidthOps == {"read_byte", "read_short", "read_int", "read_long_long", "read_float", "read_double"}

FixedRead(op, buf, pos) ==
    CASE op = "read_byte"      -> read_byte(buf, pos)
      [] op = "read_short"     -> read_short(buf, pos)
      [] op = "read_int"       -> read_int(buf, pos)
      [] op = "read_long_long" -> read_long_long(buf, pos)
      [] op = "read_float"     -> read_float(buf, pos)
      [] op = "read_double"    -> read_double(buf, pos)

InitStream ==
    /\ files = DexFiles
    /\ parsers = [p \in Parsers |-> NoParser]
    /\ Item_string_ids = NoFile
    /\ Item_type_ids = NoFile
    /\ default_descriptors = DEFAULT_DESCRIPTORS
    /\ tempdirs = 0
    /\ last = [op |-> "none"]
    /\ leb = LebIdle
    /\ \E buf \in StreamBuffers, start \in 0..MaxStream :
          /\ start <= Len(buf)
          /\ stream = [buf |-> buf, start |-> start, pos |-> start, op |-> "none", status |-> "ready"]

\* The stream after a read that asked for count bytes and ended as r.
StreamAfter(op, count, r) ==
    /\ stream' = [buf |-> stream.buf, start |-> stream.start, pos |-> r.pos, op |-> op,
                  count |-> count, status |-> r.status, value |-> r.value]
    /\ UNCHANGED <<files, parsers, Item_string_ids, Item_type_ids, default_descriptors, tempdirs, last, leb>>

\* bytestream.read_byte(), read_short(), read_int(), read_long_long(), read_float(), read_double()
ReadFixed(op) ==
    /\ stream.status = "ready"
    /\ StreamAfter(op, IF op = "read_byte" THEN 1
                       ELSE IF op = "read_short" THEN 2
                       ELSE IF op \in {"read_int", "read_float"} THEN 4 ELSE 8,
                   FixedRead(op, stream.buf, stream.pos))

\* bytestream.read_ints(count)
ReadInts(count) ==
    /\ stream.status = "ready"
    /\ StreamAfter("read_ints", count * 4, read_ints(stream.buf, stream.pos, count))

\* bytestream.read_bytes(byte_count)
ReadBytes(byte_count) ==
    /\ stream.status = "ready"
    /\ StreamAfter("read_bytes", byte_count, read_bytes(stream.buf, stream.pos, byte_count))

\* bytestream.read_fixed_string(byte_count)
ReadFixedString(byte_count) ==
    /\ stream.status = "ready"
    /\ StreamAfter("read_fixed_string", byte_count, read_fixed_string(stream.buf, stream.pos, byte_count))

\* bytestream.read(count)
Read(count) ==
    /\ stream.status = "ready"
    /\ StreamAfter("read", count, read(stream.buf, stream.pos, count))

NextStream ==
    \/ \E op \in FixedWidthOps : ReadFixed(op)
    \/ \E count \in 0..((MaxStream + 1) \div 4) : ReadInts(count)
    \/ \E byte_count \in 0..(MaxStream + 1) : ReadBytes(byte_count)
    \/ \E byte_count \in 0..(MaxStream + 1) : ReadFixedString(byte_count)
    \/ \E count \in 0..(MaxStream + 1) : Read(count)

SpecStream == InitStream /\ [][NextStream]_vars


(***************************************************************************)
(* ByteStream.read_string: the file is read in groups of GroupSize bytes.  *)
(* latin-1 maps each byte to the character of the same number, so the      *)
(* string is kept as the sequence of its byte values.                      *)
(***************************************************************************)
GroupSize == 128

\* Files that hold a run of bytes without a NUL, and then nothing, or a NUL and a tail.
StringTails == {<<>>, <<0>>, <<0, 66>>, <<0, 66, 0>>, <<0, 0>>}

StringFile(run, tail) == [i \in 1..run |-> 65] \o tail

\* data.decode('latin-1').split(chr(0))[0]
UpToNul(data) ==
    IF \E i \in 1..Len(data) : data[i] = 0
    THEN SubSeq(data, 1, (CHOOSE i \in 1..Len(data) : data[i] = 0 /\ \A j \in 1..(i - 1) : data[j] # 0) - 1)
    ELSE data

RECURSIVE ReadStringLoop(_, _, _)
\* result += delta, and whether one more group is read
ReadStringMore(buf, r, delta, result) ==
    IF Len(r.data) = GroupSize /\ Len(delta) = GroupSize
    THEN ReadStringLoop(buf, r.pos, result \o delta)
    ELSE result \o delta

\* one turn of "while byte_data", r being what self._file.read(128) returned
ReadStringGroup(buf, r, result) ==
    IF Len(r.data) = 0 THEN result ELSE ReadStringMore(buf, r, UpToNul(r.data), result)

ReadStringLoop(buf, filepos, result) == ReadStringGroup(buf, FileRead(buf, filepos, GroupSize), result)

\* pos += len(result); self._file.seek(pos); return result
SeekPastResult(pos, result) == [pos |-> pos + Len(result), status |-> "ok", value |-> result]

read_string(buf, pos) == SeekPastResult(pos, ReadStringLoop(buf, pos, <<>>))

InitString ==
    /\ files = DexFiles
    /\ parsers = [p \in Parsers |-> NoParser]
    /\ Item_string_ids = NoFile
    /\ Item_type_ids = NoFile
    /\ default_descriptors = DEFAULT_DESCRIPTORS
    /\ tempdirs = 0
    /\ last = [op |-> "none"]
    /\ leb = LebIdle
    /\ \E run \in 0..MaxString, tail \in StringTails, start \in {0, 1} :
          /\ start <= run + Len(tail)
          /\ stream = [buf |-> StringFile(run, tail), start |-> start, pos |-> start,
                       op |-> "none", status |-> "ready"]

\* bytestream.read_string()
ReadString ==
    /\ stream.status = "ready"
    /\ StreamAfter("read_string", 0, read_string(stream.buf, stream.pos))

NextString == ReadString

SpecString == InitString /\ [][NextString]_vars


(***************************************************************************)
(* DexParser._descriptor2name over the descriptors of classes: "L", the    *)
(* binary name with "/" between its parts, ";".                            *)
(***************************************************************************)
NameChars == {"L", "a", "$", "/"}

\* The part of a class descriptor between "L" and ";": parts that are not empty,
\* "/" between them.
IsBinaryName(body) ==
    /\ Len(body) >= 1
    /\ body[1] # "/"
    /\ body[Len(body)] # "/"
    /\ \A i \in 1..(Len(body) - 1) : ~(body[i] = "/" /\ body[i + 1] = "/")

ClassDescriptors ==
    { <<"L">> \o body \o <<";">> :
        body \in { b \in UNION { [1..n -> NameChars] : n \in 1..MaxName } : IsBinaryName(b) } }

InitName ==
    /\ files = DexFiles
    /\ parsers = [p \in Parsers |-> NoParser]
    /\ Item_string_ids = NoFile
    /\ Item_type_ids = NoFile
    /\ default_descriptors = DEFAULT_DESCRIPTORS
    /\ tempdirs = 0
    /\ \E d \in ClassDescriptors : last = [op |-> "none", descriptor |-> d]
    /\ leb = LebIdle
    /\ stream = StreamIdle

\* self._descriptor2name(class_def.descriptor)
Descriptor2NameCall ==
    /\ last.op = "none"
    /\ last' = [op |-> "_descriptor2name", descriptor |-> last.descriptor,
                result |-> Descriptor2Name(last.descriptor)]
    /\ UNCHANGED <<files, parsers, Item_string_ids, Item_type_ids, default_descriptors, tempdirs, leb, stream>>

NextName == Descriptor2NameCall

SpecName == InitName /\ [][NextName]_vars


(***************************************************************************)
(* AXMLParser.__init__ from the decoded tag records on: xml_tag_list is    *)
(* given, a tag is known by its index in it (0 for no tag), and the value  *)
(* dict.get returns is None or <<value>>.                                  *)
(***************************************************************************)
XMLAttr(name, value) == [name |-> name, value |-> value]

\* An XMLTag decoded from a record whose first word is XML_START_TAG
StartTag(name, attributes) == [is_start_tag |-> TRUE, name |-> name, attributes |-> attributes]

\* An XMLTag decoded from a record whose first word is XML_START_END_TAG
EndTag(name) == [is_start_tag |-> FALSE, name |-> name, attributes |-> <<>>]

\* The attribute name = value, or no attribute when the value is "".
OptAttr(name, value) == IF value = "" THEN <<>> ELSE <<XMLAttr(name, value)>>

StructureTags ==
    {StartTag("manifest", <<XMLAttr("package", "com.x")>>), StartTag("application", <<>>),
     EndTag("manifest"), EndTag("application")}

StructureLists == UNION { [1..n -> StructureTags] : n \in 0..MaxTags }

ManifestChildren ==
    { StartTag("instrumentation",
               OptAttr("name", runner) \o OptAttr("functionalTest", ft) \o OptAttr("handleProfiling", hp)) :
          runner \in {"", "x.Runner"}, ft \in {"", "true", "false"}, hp \in {"", "true", "false"} }
    \cup { StartTag("uses-sdk", OptAttr("minSdkVersion", min) \o OptAttr("targetSdkVersion", target)) :
               min \in {"", "resourceID 0xf"}, target \in {"", "resourceID 0x19"} }
    \cup { StartTag("uses-permission", OptAttr("name", name)) : name \in {"", "android.permission.INTERNET"} }

ManifestOpen == StartTag("manifest", <<XMLAttr("package", "com.x")>>)

ManifestLists ==
    { <<ManifestOpen, c, EndTag(c.name), EndTag("manifest")>> : c \in ManifestChildren }
    \cup { <<ManifestOpen, c, EndTag(c.name), d, EndTag(d.name), EndTag("manifest")>> :
               c \in ManifestChildren, d \in ManifestChildren }

XmlTagLists == StructureLists \cup ManifestLists

\* The tree before the loop: no tag has a child or a parent, current_tag is the first tag.
NoTree(xml_tag_list) ==
    [current  |-> IF Len(xml_tag_list) = 0 THEN 0 ELSE 1,
     children |-> [k \in 1..Len(xml_tag_list) |-> <<>>],
     parent   |-> [k \in 1..Len(xml_tag_list) |-> 0]]

RECURSIVE AttachTags(_, _, _)
\* for tag in xml_tag_list[1:], from the tag of index i on
AttachTags(xml_tag_list, i, t) ==
    IF i > Len(xml_tag_list) THEN t
    ELSE IF xml_tag_list[i].is_start_tag
    THEN AttachTags(xml_tag_list, i + 1,
                    [current  |-> i,
                     children |-> [t.children EXCEPT ![t.current] = Append(@, i)],
                     parent   |-> [t.parent EXCEPT ![i] = t.current]])
    ELSE IF t.parent[t.current] = 0 THEN t
    ELSE AttachTags(xml_tag_list, i + 1, [t EXCEPT !.current = t.parent[t.current]])

\* self._xml_tag and the children and parent_tag of every tag
BuildTree(xml_tag_list) ==
    IF Len(xml_tag_list) = 0 THEN NoTree(xml_tag_list) ELSE AttachTags(xml_tag_list, 2, NoTree(xml_tag_list))

\* {attr.name: attr.value for attr in attributes}.get(key)
DictGet(attributes, key) ==
    IF \E i \in 1..Len(attributes) : attributes[i].name = key
    THEN <<attributes[CHOOSE i \in 1..Len(attributes) :
                          attributes[i].name = key /\ \A j \in (i + 1)..Len(attributes) : attributes[j].name # key].value>>
    ELSE None

\* value in ["true", True]: attribute values are str, and no str equals True
InTrueList(value) == value = <<"true">>

\* value == ["true", True]: neither a str nor None equals a list
EqualsTrueList(value) == FALSE

\* int(value.split(' ')[1], 16) for the values the manifests here carry
HexVersion(value) ==
    CASE value = <<"resourceID 0xf">>  -> 15
      [] value = <<"resourceID 0x19">> -> 25

\* The records before any child is looked at.
NoRecords(package_name) ==
    [status |-> "ok", package_name |-> package_name, instrumentation |-> None,
     uses_sdk |-> None, permissions |-> <<>>]

Instrumentation(attributes) ==
    [runner           |-> DictGet(attributes, "name"),
     functional_test  |-> InTrueList(DictGet(attributes, "functionalTest")),
     handle_profiling |-> EqualsTrueList(DictGet(attributes, "handleProfiling")),
     label            |-> DictGet(attributes, "label"),
     target_package   |-> DictGet(attributes, "targetPackage")]

\* The uses-sdk branch: None.split raises AttributeError
UsesSdk(target_sdk_version, min_sdk_version, r) ==
    IF target_sdk_version = None \/ min_sdk_version = None
    THEN [r EXCEPT !.status = "AttributeError"]
    ELSE [r EXCEPT !.uses_sdk = <<[target_sdk_version |-> HexVersion(target_sdk_version),
                                   min_sdk_version    |-> HexVersion(min_sdk_version)]>>]

\* The uses-permission branch: attrs_dict["name"] raises KeyError
UsesPermission(name, r) ==
    IF name = None THEN [r EXCEPT !.status = "KeyError"]
    ELSE [r EXCEPT !.permissions = Append(@, name[1])]

\* The body of "for child in self._xml_tag.children"
ProcessChild(child, r) ==
    IF child.name = "instrumentation"
    THEN [r EXCEPT !.instrumentation = <<Instrumentation(child.attributes)>>]
    ELSE IF child.name = "uses-sdk"
    THEN UsesSdk(DictGet(child.attributes, "targetSdkVersion"), DictGet(child.attributes, "minSdkVersion"), r)
    ELSE IF child.name = "uses-permission"
    THEN UsesPermission(DictGet(child.attributes, "name"), r)
    ELSE r

RECURSIVE ProcessChildren(_, _, _, _)
ProcessChildren(xml_tag_list, children, i, r) ==
    IF i > Len(children) \/ r.status # "ok" THEN r
    ELSE ProcessChildren(xml_tag_list, children, i + 1, ProcessChild(xml_tag_list[children[i]], r))

\* AXMLParser._process_tags
process_tags(xml_tag_list, t) ==
    IF Len(xml_tag_list) = 0 THEN NoRecords(None)
    ELSE IF xml_tag_list[1].name # "manifest" THEN NoRecords(None)
    ELSE ProcessChildren(xml_tag_list, t.children[1], 1,
                         NoRecords(DictGet(xml_tag_list[1].attributes, "package")))

InitAxml ==
    /\ files = DexFiles
    /\ parsers = [p \in Parsers |-> NoParser]
    /\ Item_string_ids = NoFile
    /\ Item_type_ids = NoFile
    /\ default_descriptors = DEFAULT_DESCRIPTORS
    /\ tempdirs = 0
    /\ \E xml_tag_list \in XmlTagLists : last = [op |-> "none", xml_tag_list |-> xml_tag_list]
    /\ leb = LebIdle
    /\ stream = StreamIdle

\* The parser after __init__ built the tree t and _process_tags ended as r.
AxmlInitialised(xml_tag_list, t, r) ==
    /\ last' = [op |-> "AXMLParser", xml_tag_list |-> xml_tag_list,
                xml_tag |-> IF Len(xml_tag_list) = 0 THEN 0 ELSE 1,
                children |-> t.children, parent |-> t.parent,
                status |-> r.status, package_name |-> r.package_name,
                instrumentation |-> r.instrumentation, uses_sdk |-> r.uses_sdk,
                permissions |-> r.permissions]
    /\ UNCHANGED <<files, parsers, Item_string_ids, Item_type_ids, default_descriptors, tempdirs, leb, stream>>

AxmlProcessed(xml_tag_list, t) == AxmlInitialised(xml_tag_list, t, process_tags(xml_tag_list, t))

\* AXMLParser(bytestream), the records of the file being last.xml_tag_list
AxmlInit ==
    /\ last.op = "none"
    /\ AxmlProcessed(last.xml_tag_list, BuildTree(last.xml_tag_list))

NextAxml == AxmlInit

SpecAxml == InitAxml /\ [][NextAxml]_vars


(***************************************************************************)
(* DexParser.EncodedValue, with the EncodedArray and EncodedAnnotation it  *)
(* nests, over a ByteStream.  A decoder gives the cursor after it, "ok" or *)
(* the exception, and the value; only the value of a BOOLEAN is told apart *)
(* from the bytes read.                                                    *)
(***************************************************************************)
VALUE_BYTE == 0
VALUE_SHORT == 2
VALUE_CHAR == 3
VALUE_INT == 4
VALUE_LONG == 6
VALUE_FLOAT == 16
VALUE_DOUBLE == 17
VALUE_STRING == 23
VALUE_TYPE == 24
VALUE_FIELD == 25
VALUE_METHOD == 26
VALUE_ENUM == 27
VALUE_ARRAY == 28
VALUE_ANNOTATION == 29
VALUE_NULL == 30
VALUE_BOOLEAN == 31

\* [getattr(self, name) for name in dir(self) if name.startswith("VALUE_")]
VALUE_TYPES ==
    {VALUE_BYTE, VALUE_SHORT, VALUE_CHAR, VALUE_INT, VALUE_LONG, VALUE_FLOAT, VALUE_DOUBLE,
     VALUE_STRING, VALUE_TYPE, VALUE_FIELD, VALUE_METHOD, VALUE_ENUM, VALUE_ARRAY,
     VALUE_ANNOTATION, VALUE_NULL, VALUE_BOOLEAN}

\* The decoder ends by the exception that ended r.
Failed(r) == [pos |-> r.pos, status |-> r.status, value |-> None]

\* The decoder ends well at pos with no value of interest.
Decoded(pos) == [pos |-> pos, status |-> "ok", value |-> None]

\* A number read_leb128 returned, as the count parse_items is given; a count of 2^28 or
\* more is more than any file here holds.
ItemCount(w) == IF w.hi = 0 THEN w.lo ELSE 2^28

\* bytestream.read_bytes(value_arg) != 0: a bytes object is not equal to an int
BytesNotZero(r) == [pos |-> r.pos, status |-> r.status, value |-> TRUE]

RECURSIVE EncodedValue(_, _)
RECURSIVE EncodedValues(_, _, _)
RECURSIVE AnnotationElements(_, _, _)

\* parse_items(count, None, EncodedValue) after the first of count values ended as r
EncodedValuesAfter(buf, r, count) ==
    IF r.status # "ok" THEN Failed(r) ELSE EncodedValues(buf, r.pos, count - 1)

\* parse_items(count, None, EncodedValue)
EncodedValues(buf, pos, count) ==
    IF count = 0 THEN Decoded(pos) ELSE EncodedValuesAfter(buf, EncodedValue(buf, pos), count)

\* EncodedArray.__init__ after self.size = read_leb128() ended as r
EncodedArrayValues(buf, r) ==
    IF r.status # "ok" THEN Failed(r) ELSE EncodedValues(buf, r.pos, ItemCount(r.value))

\* DexParser.EncodedArray
EncodedArray(buf, pos) == EncodedArrayValues(buf, read_leb128(buf, pos))

\* parse_items(count, None, AnnotationElement) after the value of the first element
AnnotationElementsAfter(buf, r, count) ==
    IF r.status # "ok" THEN Failed(r) ELSE AnnotationElements(buf, r.pos, count - 1)

\* AnnotationElement.__init__ after self.name_index = read_leb128() ended as r
AnnotationElementValue(buf, r, count) ==
    IF r.status # "ok" THEN Failed(r)
    ELSE AnnotationElementsAfter(buf, EncodedValue(buf, r.pos), count)

\* parse_items(count, None, AnnotationElement)
AnnotationElements(buf, pos, count) ==
    IF count = 0 THEN Decoded(pos) ELSE AnnotationElementValue(buf, read_leb128(buf, pos), count)

\* EncodedAnnotation.__init__ after size = read_leb128() ended as r
EncodedAnnotationElements(buf, r) ==
    IF r.status # "ok" THEN Failed(r) ELSE AnnotationElements(buf, r.pos, ItemCount(r.value))

\* EncodedAnnotation.__init__ after self.type_index = read_leb128() ended as r
EncodedAnnotationSize(buf, r) ==
    IF r.status # "ok" THEN Failed(r) ELSE EncodedAnnotationElements(buf, read_leb128(buf, r.pos))

\* DexParser.EncodedAnnotation
EncodedAnnotation(buf, pos) == EncodedAnnotationSize(buf, read_leb128(buf, pos))

\* The if-chain of EncodedValue.__init__
EncodedValuePayload(buf, pos, value_arg, value_type) ==
    IF value_type \notin VALUE_TYPES
    THEN [pos |-> pos, status |-> "Exception", value |-> None]
    ELSE IF value_type = VALUE_BYTE /\ value_arg + 1 = 1 THEN read_byte(buf, pos)
    ELSE IF value_type = VALUE_SHORT /\ value_arg + 1 = 2 THEN read_short(buf, pos)
    ELSE IF value_type = VALUE_INT /\ value_arg + 1 = 4 THEN read_int(buf, pos)
    ELSE IF value_type = VALUE_LONG /\ value_arg + 1 = 8 THEN read_long_long(buf, pos)
    ELSE IF value_type = VALUE_CHAR /\ value_arg + 1 = 1 THEN read_byte(buf, pos)
    ELSE IF value_type = VALUE_ENUM THEN read_bytes(buf, pos, value_arg + 1)
    ELSE IF value_type = VALUE_FLOAT /\ value_arg + 1 = 4 THEN read_float(buf, pos)
    ELSE IF value_type = VALUE_DOUBLE /\ value_arg + 1 = 8 THEN read_double(buf, pos)
    ELSE IF value_type = VALUE_STRING THEN read_fixed_string(buf, pos, value_arg + 1)
    ELSE IF value_type = VALUE_ARRAY THEN EncodedArray(buf, pos)
    ELSE IF value_type = VALUE_ANNOTATION THEN EncodedAnnotation(buf, pos)
    ELSE IF value_type = VALUE_NULL THEN [pos |-> pos, status |-> "ok", value |-> <<>>]
    ELSE IF value_type = VALUE_BOOLEAN THEN BytesNotZero(read_bytes(buf, pos, value_arg))
    ELSE read_bytes(buf, pos, value_arg + 1)

\* EncodedValue.__init__ after arg_and_type = read_byte() ended as r:
\* value_arg = arg_and_type >> 5, value_type = arg_and_type & 0x1F
EncodedValueHeader(buf, r) ==
    IF r.status # "ok" THEN Failed(r)
    ELSE EncodedValuePayload(buf, r.pos, r.value \div 32, r.value % 32)

\* DexParser.EncodedValue
EncodedValue(buf, pos) == EncodedValueHeader(buf, read_byte(buf, pos))

\* The bytes that follow the header byte in the files decoded here.
FillByteVals == {0, 1, VALUE_BOOLEAN}

Fillers ==
    UNION { [1..n -> FillByteVals] : n \in 0..MaxFill }
    \cup { [i \in 1..n |-> 0] : n \in 0..MaxPayload }

InitValue ==
    /\ files = DexFiles
    /\ parsers = [p \in Parsers |-> NoParser]
    /\ Item_string_ids = NoFile
    /\ Item_type_ids = NoFile
    /\ default_descriptors = DEFAULT_DESCRIPTORS
    /\ tempdirs = 0
    /\ last = [op |-> "none"]
    /\ leb = LebIdle
    /\ \E arg_and_type \in 0..255, filler \in Fillers :
          stream = [buf |-> <<arg_and_type>> \o filler, start |-> 0, pos |-> 0,
                    op |-> "none", status |-> "ready"]

\* bytestream.parse_one_item(None, DexParser.EncodedValue)
ParseEncodedValue ==
    /\ stream.status = "ready"
    /\ StreamAfter("EncodedValue", 0, EncodedValue(stream.buf, stream.pos))

NextValue == ParseEncodedValue

SpecValue == InitValue /\ [][NextValue]_vars


(***************************************************************************)
(* Android binary XML files.  A file is its bytes; a 32-bit word is four   *)
(* bytes, least significant first.  The string chunk starts at file offset *)
(* 8, and the offsets its header holds are relative to that start.         *)
(***************************************************************************)
WORD_LENGTH == 4

EXPECTED_TAG == 524291              \* 0x00080003
EXPECTED_STRING_TAG == 1835009      \* 0x001c0001
EXPECTED_RESOURCE_TAG == 524672     \* 0x00080180

\* The four bytes of the 32-bit two's complement word n, least significant first.
Word(n) ==
    <<(IF n < 0 THEN (n + 2147483647) + 1 ELSE n) % 256,
      ((IF n < 0 THEN (n + 2147483647) + 1 ELSE n) \div 256) % 256,
      ((IF n < 0 THEN (n + 2147483647) + 1 ELSE n) \div 65536) % 256,
      ((IF n < 0 THEN (n + 2147483647) + 1 ELSE n) \div 16777216) + (IF n < 0 THEN 128 ELSE 0)>>

RECURSIVE Words(_)
Words(ns) == IF Len(ns) = 0 THEN <<>> ELSE Word(Head(ns)) \o Words(Tail(ns))

\* count bytes, each b
Fill(count, b) == [i \in 1..count |-> b]

\* struct.unpack("<i", data)[0] of four bytes
IntValue(data) ==
    data[1] + 256 * data[2] + 65536 * data[3]
      + 16777216 * (IF data[4] >= 128 THEN data[4] - 256 ELSE data[4])

\* struct.unpack("<h", data)[0] of two bytes
ShortValue(data) == data[1] + 256 * (IF data[2] >= 128 THEN data[2] - 256 ELSE data[2])

\* The string items of a pool: a two-byte length, then the text.
Utf8Ab == <<2, 2, 97, 98, 0>>
Utf16A == <<1, 0, 97, 0, 0, 0>>
Utf8Invalid == <<1, 1, 255, 0>>
Utf16Odd == <<3, 0, 97, 0, 98>>
NegativeLength == <<255, 255>>

\* The string pools: the entries of the string offset table and the raw data.
StringPools ==
    { [offsets |-> <<>>, data |-> <<>>],
      [offsets |-> <<0>>, data |-> Utf8Ab \o <<0, 0, 0>>],
      [offsets |-> <<0, 5>>, data |-> Utf8Ab \o Utf16A \o <<0>>],
      [offsets |-> <<0, 4>>, data |-> Utf8Invalid \o Utf8Ab \o <<0, 0, 0>>],
      [offsets |-> <<-100, 1000>>, data |-> Utf8Ab \o <<0, 0, 0>>],
      [offsets |-> <<0, 2>>, data |-> NegativeLength \o Utf16Odd \o <<0>>] }

\* The offset of the string raw data from the start of the string chunk
StringsStart(pool, style_count) == 28 + 4 * Len(pool.offsets) + 4 * style_count

\* The offset of the style raw data: 0 in a file without styles
StylesStart(pool, style_count) ==
    IF style_count = 0 THEN 0 ELSE StringsStart(pool, style_count) + Len(pool.data)

StringChunkSize(pool, style_count, style_words) ==
    StringsStart(pool, style_count) + Len(pool.data) + 4 * style_words

\* A file with the string pool pool, style_count styles whose raw data are style_words
\* words, a resource chunk of resource_ids ids, and the element records body.
AxmlFile(pool, style_count, style_words, resource_ids, body) ==
    Words(<<EXPECTED_TAG, 0, EXPECTED_STRING_TAG,
            StringChunkSize(pool, style_count, style_words),
            Len(pool.offsets), style_count, 0,
            StringsStart(pool, style_count), StylesStart(pool, style_count)>>)
      \o Words(pool.offsets) \o Fill(4 * style_count, 0)
      \o pool.data \o Fill(4 * style_words, 255)
      \o Words(<<EXPECTED_RESOURCE_TAG, 8 + 4 * resource_ids>>) \o Fill(4 * resource_ids, 7)
      \o body

\* buf with the word at file offset pos replaced by the word n
Patch(buf, pos, n) ==
    [i \in 1..Len(buf) |-> IF i \in (pos + 1)..(pos + 4) THEN Word(n)[i - pos] ELSE buf[i]]

\* The ways a file differs from what the format asks for.
Damages == {"none", "tag", "string_tag", "resource_tag", "resource_size", "cut_header",
            "cut_offsets", "cut_resource"}

Damaged(buf, damage, chunk_end) ==
    CASE damage = "none"          -> buf
      [] damage = "tag"           -> Patch(buf, 0, EXPECTED_TAG + 1)
      [] damage = "string_tag"    -> Patch(buf, 8, EXPECTED_TAG)
      [] damage = "resource_tag"  -> Patch(buf, chunk_end, EXPECTED_TAG)
      [] damage = "resource_size" -> Patch(buf, chunk_end + 4, 10)
      [] damage = "cut_header"    -> SubSeq(buf, 1, 34)
      [] damage = "cut_offsets"   -> SubSeq(buf, 1, 38)
      [] damage = "cut_resource"  -> SubSeq(buf, 1, chunk_end + 6)

\* F of the value of e, which is computed once however often F uses it
With(e, F(_)) == CHOOSE r \in {F(v) : v \in {e}} : TRUE

\* bytestream.seek(pos) from the cursor at from: the file refuses a negative position
Seek(from, pos) ==
    IF pos < 0 THEN [pos |-> from, status |-> "OSError"] ELSE [pos |-> pos, status |-> "ok"]

\* The int bytestream.read_int() returns at pos
IntAt(buf, pos) == With(read_int(buf, pos).value, LAMBDA data : IntValue(data))

\* A Header whose constructor raised
NoHeader ==
    [string_count |-> 0, style_count |-> 0, string_offset |-> <<>>,
     string_raw_data_offset |-> 0, style_raw_data_offset |-> 0]

HeaderRaised(status, pos, tag_pos, string_chunk_size) ==
    [status |-> status, pos |-> pos, tag_pos |-> tag_pos,
     string_chunk_size |-> string_chunk_size, header |-> NoHeader]

\* AXMLParser.Header.__init__ from the resource chunk on, which starts at pos
HeaderResource(buf, pos, string_chunk_size, header) ==
    IF read_int(buf, pos).status # "ok"
    THEN HeaderRaised("struct.error", read_int(buf, pos).pos, pos, string_chunk_size)
    ELSE IF IntAt(buf, pos) # EXPECTED_RESOURCE_TAG
    THEN HeaderRaised("Exception", pos + 4, pos, string_chunk_size)
    ELSE IF read_int(buf, pos + 4).status # "ok"
    THEN HeaderRaised("struct.error", read_int(buf, pos + 4).pos, pos, string_chunk_size)
    ELSE IF IntAt(buf, pos + 4) % 4 # 0
    THEN HeaderRaised("Exception", pos + 8, pos, string_chunk_size)
    ELSE IF Seek(pos + 8, pos + 8 + IntAt(buf, pos + 4) - 8).status # "ok"
    THEN HeaderRaised("OSError", pos + 8, pos, string_chunk_size)
    ELSE [status |-> "ok", pos |-> pos + 8 + IntAt(buf, pos + 4) - 8, tag_pos |-> pos,
          string_chunk_size |-> string_chunk_size, header |-> header]

\* AXMLParser.Header.__init__, skipping the style raw data from pos on
HeaderSkipStyles(buf, pos, string_chunk_size, header) ==
    IF header.style_raw_data_offset = 0
    THEN HeaderResource(buf, pos, string_chunk_size, header)
    ELSE IF Seek(pos, pos + (string_chunk_size - header.style_raw_data_offset) * WORD_LENGTH).status # "ok"
    THEN HeaderRaised("OSError", pos, -1, string_chunk_size)
    ELSE With(pos + (string_chunk_size - header.style_raw_data_offset) * WORD_LENGTH,
              LAMBDA tag_pos : HeaderResource(buf, tag_pos, string_chunk_size, header))

\* AXMLParser.Header.__init__, skipping length bytes of string raw data from pos on
HeaderSkipStrings(buf, pos, length, string_chunk_size, header) ==
    IF Seek(pos, pos + length).status # "ok"
    THEN HeaderRaised("OSError", pos, -1, string_chunk_size)
    ELSE With(pos + length, LAMBDA styles_pos :
         With([header EXCEPT !.string_raw_data_offset = pos], LAMBDA located :
              HeaderSkipStyles(buf, styles_pos, string_chunk_size, located)))

\* AXMLParser.Header.__init__ after the string offset table, the cursor at pos
HeaderSkipTables(buf, pos, string_chunk_size, header) ==
    IF Seek(pos, pos + header.style_count * WORD_LENGTH).status # "ok"
    THEN HeaderRaised("OSError", pos, -1, string_chunk_size)
    ELSE With((IF header.style_raw_data_offset = 0 THEN string_chunk_size
               ELSE header.style_raw_data_offset) - header.string_raw_data_offset,
              LAMBDA length :
                  HeaderSkipStrings(buf, pos + header.style_count * WORD_LENGTH, length,
                                    string_chunk_size, header))

\* [bytestream.read_int() for _ in range(string_count)] from pos on
StringOffsets(buf, pos, string_count) ==
    [i \in 1..string_count |-> IntAt(buf, pos + 4 * (i - 1))]

\* AXMLParser.Header.__init__ after the nine words of the fixed part
HeaderTables(buf, string_chunk_size, header) ==
    IF header.string_count > 0 /\ 36 + 4 * header.string_count > Len(buf)
    THEN HeaderRaised("struct.error", Len(buf), -1, string_chunk_size)
    ELSE With([header EXCEPT !.string_offset = StringOffsets(buf, 36, header.string_count)],
              LAMBDA tabled :
                  HeaderSkipTables(buf,
                                   IF header.string_count > 0 THEN 36 + 4 * header.string_count
                                   ELSE 36,
                                   string_chunk_size, tabled))

\* AXMLParser.Header(bytestream), the cursor at the start of the file
Header(buf) ==
    IF read_int(buf, 0).status # "ok"
    THEN HeaderRaised("struct.error", read_int(buf, 0).pos, -1, 0)
    ELSE IF IntAt(buf, 0) # EXPECTED_TAG
    THEN HeaderRaised("Exception", 4, -1, 0)
    ELSE IF read_int(buf, 4).status # "ok"
    THEN HeaderRaised("struct.error", read_int(buf, 4).pos, -1, 0)
    ELSE IF read_int(buf, 8).status # "ok"
    THEN HeaderRaised("struct.error", read_int(buf, 8).pos, -1, 0)
    ELSE IF IntAt(buf, 8) # EXPECTED_STRING_TAG
    THEN HeaderRaised("Exception", 12, -1, 0)
    ELSE IF Len(buf) < 36
    THEN HeaderRaised("struct.error", Len(buf), -1, 0)
    ELSE With(IntAt(buf, 12), LAMBDA string_chunk_size :
         With([string_count |-> IntAt(buf, 16), style_count |-> IntAt(buf, 20),
               string_offset |-> <<>>, string_raw_data_offset |-> IntAt(buf, 28),
               style_raw_data_offset |-> IntAt(buf, 32)], LAMBDA fixed :
              HeaderTables(buf, string_chunk_size, fixed)))

\* The numbers of styles and of words of style raw data of the files
StyleShapes == {<<0, 0>>, <<1, 0>>, <<1, 1>>, <<1, 2>>, <<2, 0>>, <<2, 1>>, <<2, 2>>}

MaxResourceIds == 2     \* the most resource ids a file holds

InitHeader ==
    /\ files = DexFiles
    /\ parsers = [p \in Parsers |-> NoParser]
    /\ Item_string_ids = NoFile
    /\ Item_type_ids = NoFile
    /\ default_descriptors = DEFAULT_DESCRIPTORS
    /\ tempdirs = 0
    /\ last = [op |-> "none"]
    /\ leb = LebIdle
    /\ \E pool \in StringPools, shape \in StyleShapes, resource_ids \in 0..MaxResourceIds,
          damage \in Damages :
          stream = [buf |-> Damaged(AxmlFile(pool, shape[1], shape[2], resource_ids, <<>>), damage,
                                    8 + StringChunkSize(pool, shape[1], shape[2])),
                    start |-> 0, pos |-> 0, op |-> "none", status |-> "ready"]

\* The stream after AXMLParser.Header(bytestream) ended as r
HeaderDone(r) ==
    /\ stream' = With(r, LAMBDA made :
                      [buf |-> stream.buf, start |-> stream.start, pos |-> made.pos,
                       op |-> "Header", status |-> made.status, header |-> made.header,
                       tag_pos |-> made.tag_pos,
                       string_chunk_size |-> made.string_chunk_size])
    /\ UNCHANGED <<files, parsers, Item_string_ids, Item_type_ids, default_descriptors, tempdirs, last, leb>>

\* AXMLParser.Header(bytestream)
HeaderInit ==
    /\ stream.status = "ready"
    /\ HeaderDone(Header(stream.buf))

NextHeader == HeaderInit

SpecHeader == InitHeader /\ [][NextHeader]_vars


(***************************************************************************)
(* String items.  The text of a decoded item is kept as the bytes it was   *)
(* decoded from; a decode raises UnicodeDecodeError on bytes that are not  *)
(* text in the encoding.                                                   *)
(***************************************************************************)
IsContinuation(data, i) == i <= Len(data) /\ data[i] \in 128..191

\* Whether data from index i on is well-formed UTF-8
RECURSIVE Utf8Valid(_, _)
Utf8Valid(data, i) ==
    IF i > Len(data) THEN TRUE
    ELSE IF data[i] < 128 THEN Utf8Valid(data, i + 1)
    ELSE IF data[i] \in 194..223
    THEN IsContinuation(data, i + 1) /\ Utf8Valid(data, i + 2)
    ELSE IF data[i] \in 224..239
    THEN /\ IsContinuation(data, i + 1) /\ IsContinuation(data, i + 2)
         /\ (data[i] = 224 => data[i + 1] >= 160)
         /\ (data[i] = 237 => data[i + 1] <= 159)
         /\ Utf8Valid(data, i + 3)
    ELSE IF data[i] \in 240..244
    THEN /\ IsContinuation(data, i + 1) /\ IsContinuation(data, i + 2)
         /\ IsContinuation(data, i + 3)
         /\ (data[i] = 240 => data[i + 1] >= 144)
         /\ (data[i] = 244 => data[i + 1] <= 143)
         /\ Utf8Valid(data, i + 4)
    ELSE FALSE

\* The 16-bit code unit at index i, the high byte first if big
Utf16Unit(data, i, big) ==
    IF big THEN 256 * data[i] + data[i + 1] ELSE data[i] + 256 * data[i + 1]

\* Whether data from index i on is well-formed UTF-16: whole units, surrogates in pairs
RECURSIVE Utf16Valid(_, _, _)
Utf16Valid(data, i, big) ==
    IF i > Len(data) THEN TRUE
    ELSE IF i = Len(data) THEN FALSE
    ELSE IF Utf16Unit(data, i, big) \in 55296..56319
    THEN /\ i + 3 <= Len(data)
         /\ Utf16Unit(data, i + 2, big) \in 56320..57343
         /\ Utf16Valid(data, i + 4, big)
    ELSE IF Utf16Unit(data, i, big) \in 56320..57343 THEN FALSE
    ELSE Utf16Valid(data, i + 2, big)

\* bytes.decode('utf-8') of what a read returned
DecodeUtf8(r) ==
    With(r, LAMBDA bytes :
        IF bytes.status # "ok" THEN bytes
        ELSE IF Utf8Valid(bytes.value, 1)
        THEN [pos |-> bytes.pos, status |-> "ok", value |-> [text |-> bytes.value]]
        ELSE [pos |-> bytes.pos, status |-> "UnicodeDecodeError", value |-> None])

\* bytes.decode('utf-16') of what a read returned: a byte order mark gives the order
DecodeUtf16(r) ==
    With(r, LAMBDA bytes :
        IF bytes.status # "ok" THEN bytes
        ELSE IF \/ /\ Len(bytes.value) >= 2 /\ bytes.value[1] = 255 /\ bytes.value[2] = 254
                   /\ Utf16Valid(bytes.value, 3, FALSE)
                \/ /\ Len(bytes.value) >= 2 /\ bytes.value[1] = 254 /\ bytes.value[2] = 255
                   /\ Utf16Valid(bytes.value, 3, TRUE)
                \/ /\ ~(/\ Len(bytes.value) >= 2 /\ bytes.value[1] \in {254, 255}
                         /\ bytes.value[1] + bytes.value[2] = 509)
                   /\ Utf16Valid(bytes.value, 1, FALSE)
        THEN [pos |-> bytes.pos, status |-> "ok", value |-> [text |-> bytes.value]]
        ELSE [pos |-> bytes.pos, status |-> "UnicodeDecodeError", value |-> None])

\* int(length/256)
IntDiv256(length) == IF length >= 0 THEN length \div 256 ELSE -((-length) \div 256)

\* AXMLParser.StringItem.__init__ after the length was read, the cursor at pos
StringItemText(buf, pos, length) ==
    IF IntDiv256(length) = length % 256
    THEN DecodeUtf8(read_bytes(buf, pos, length % 256))
    ELSE DecodeUtf16(read_bytes(buf, pos, length * 2))

\* AXMLParser.StringItem(bytestream), the cursor at pos
StringItem(buf, pos) ==
    With(read_short(buf, pos), LAMBDA length :
        IF length.status # "ok" THEN length
        ELSE StringItemText(buf, pos + 2, ShortValue(length.value)))

\* A _get_string that leaves the cursor where the string item ended
NoSeekBack(offset, r) ==
    With(r, LAMBDA item :
        [pos |-> item.pos, status |-> item.status, value |-> item.value,
         item_end |-> item.pos])

\* _get_string's finally: bytestream.seek(offset), after the try block ended as r
SeekBack(offset, r) ==
    With(r, LAMBDA item :
        [pos |-> offset, status |-> item.status, value |-> item.value,
         item_end |-> item.pos])

\* _get_string's try block: seek to the string item at file position target and decode it
TryStringItem(buf, offset, target) ==
    With(target, LAMBDA item_pos :
        IF Seek(offset, item_pos).status # "ok"
        THEN [pos |-> offset, status |-> "OSError", value |-> None]
        ELSE StringItem(buf, item_pos))

\* parser._get_string(bytestream, str_index), the cursor at pos
get_string(buf, pos, header, str_index) ==
    IF str_index < 0
    THEN [pos |-> pos, status |-> "ok", value |-> None, item_end |-> pos]
    ELSE IF str_index >= Len(header.string_offset)
    THEN [pos |-> pos, status |-> "ok", value |-> <<>>, item_end |-> pos]
    ELSE SeekBack(pos, TryStringItem(buf, pos,
                                     header.string_raw_data_offset
                                       + header.string_offset[str_index + 1]))

\* The files whose header the decoder gets through: no style raw data in them.
ReadableShapes == {<<0, 0>>, <<1, 0>>}

InitGetString ==
    /\ files = DexFiles
    /\ parsers = [p \in Parsers |-> NoParser]
    /\ Item_string_ids = NoFile
    /\ Item_type_ids = NoFile
    /\ default_descriptors = DEFAULT_DESCRIPTORS
    /\ tempdirs = 0
    /\ last = [op |-> "none"]
    /\ leb = LebIdle
    /\ \E pool \in StringPools, shape \in ReadableShapes, resource_ids \in 0..MaxResourceIds,
          body \in {<<>>, <<0>>} :
          stream = [buf |-> AxmlFile(pool, shape[1], shape[2], resource_ids, body),
                    start |-> 0, pos |-> 0, op |-> "none", status |-> "ready"]

\* The stream is the one of a parser whose header was decoded
HeaderParsed ==
    \/ stream.op = "Header" /\ stream.status = "ok"
    \/ stream.op \in {"seek", "_get_string"}

\* The stream after a call on it ended as r
ParserStreamAfter(op, index, r) ==
    /\ stream' = [buf |-> stream.buf, start |-> stream.start, pos |-> r.pos, op |-> op,
                  status |-> r.status, header |-> stream.header, index |-> index,
                  value |-> r.value, item_end |-> r.item_end]
    /\ UNCHANGED <<files, parsers, Item_string_ids, Item_type_ids, default_descriptors, tempdirs, last, leb>>

\* bytestream.seek(pos)
StreamSeek(pos) ==
    /\ HeaderParsed
    /\ ParserStreamAfter("seek", pos,
                         [pos |-> Seek(stream.pos, pos).pos, status |-> Seek(stream.pos, pos).status,
                          value |-> None, item_end |-> Seek(stream.pos, pos).pos])

\* parser._get_string(bytestream, str_index)
GetString(str_index) ==
    /\ HeaderParsed
    /\ ParserStreamAfter("_get_string", str_index,
                         get_string(stream.buf, stream.pos, stream.header, str_index))

MaxStringIndex == 2     \* the largest string index _get_string is called with

NextGetString ==
    \/ HeaderInit
    \/ \E pos \in {-1, 0, 38, Len(stream.buf) + 2} : StreamSeek(pos)
    \/ \E str_index \in -1..MaxStringIndex : GetString(str_index)

SpecGetString == InitGetString /\ [][NextGetString]_vars


(***************************************************************************)
(* The element records.  parse_items is followed one loop iteration at a   *)
(* time: the stream's status is "parsing" between two iterations.          *)
(***************************************************************************)
XML_END_DOC_TAG == 1048833       \* 0x00100101
XML_START_TAG == 1048834         \* 0x00100102
XML_START_END_TAG == 1048835     \* 0x00100103
START_NS == 1048832              \* 0x00100100
END_NS == 1048833                \* 0x00100101

\* The reads so far went through and left the cursor at pos
Reached(pos) == [pos |-> pos, status |-> "ok"]

\* A run of read_int calls from pos on that the file is too short for: the failing
\* read takes what is left of the file and struct.unpack raises
PastEnd(buf, pos) ==
    [pos |-> IF pos <= Len(buf) THEN Len(buf) ELSE pos, status |-> "struct.error"]

\* After the reads r: parser._get_string(bytestream, str_index) if wanted
ThenGetString(buf, r, header, str_index, wanted) ==
    With(r, LAMBDA reads :
        IF reads.status # "ok" \/ ~wanted THEN reads
        ELSE With(get_string(buf, reads.pos, header, str_index),
                  LAMBDA string : [pos |-> string.pos, status |-> string.status]))

\* AXMLParser.XMLAttr(parser, bytestream), the cursor at pos
XMLAttrInit(buf, pos, header) ==
    IF pos + 20 > Len(buf) THEN PastEnd(buf, pos)
    ELSE ThenGetString(buf,
             ThenGetString(buf,
                 ThenGetString(buf, Reached(pos + 20), header,
                               IntAt(buf, pos), IntAt(buf, pos) >= 0),
                 header, IntAt(buf, pos + 4), TRUE),
             header, IntAt(buf, pos + 8), IntAt(buf, pos + 8) >= 0)

\* AXMLParser.XMLAttr.get(parser, bytestream, count), the cursor at pos
RECURSIVE XMLAttrGet(_, _, _, _)
XMLAttrGet(buf, pos, header, count) ==
    IF count <= 0 THEN Reached(pos)
    ELSE With(XMLAttrInit(buf, pos, header), LAMBDA attr :
              IF attr.status # "ok" THEN attr
              ELSE XMLAttrGet(buf, attr.pos, header, count - 1))

\* AXMLParser.XMLTag.__init__ from the attributes on, which start at pos
XMLTagAttributes(buf, pos, header, is_start_tag) ==
    IF ~is_start_tag THEN Reached(pos + 8)
    ELSE IF pos + 20 > Len(buf) THEN PastEnd(buf, pos)
    ELSE XMLAttrGet(buf, pos + 20, header, IntAt(buf, pos + 12))

\* AXMLParser.XMLTag(parser, bytestream, is_start_tag), the cursor at pos
XMLTagInit(buf, pos, header, is_start_tag) ==
    IF pos + 8 > Len(buf) THEN PastEnd(buf, pos)
    ELSE ThenGetString(buf,
             ThenGetString(buf, XMLTagAttributes(buf, pos, header, is_start_tag), header,
                           IntAt(buf, pos), IntAt(buf, pos) >= 0),
             header, IntAt(buf, pos + 4), TRUE)

\* An NSRecord whose constructor puts the cursor back at the start of the record
NSRecordRewind(buf, pos) ==
    IF pos + 8 > Len(buf) THEN PastEnd(buf, pos) ELSE Reached(pos - 16)

\* AXMLParser.NSRecord(bytestream, is_start), the cursor at pos
NSRecordInit(buf, pos) ==
    IF pos + 8 > Len(buf) THEN PastEnd(buf, pos) ELSE Reached(pos + 8)

\* What an iteration of parse_items that built an item leaves: the loop goes on unless
\* the constructor raised
ItemAppended(r) ==
    With(r, LAMBDA item :
        [pos |-> item.pos, status |-> IF item.status = "ok" THEN "parsing" ELSE item.status,
         appended |-> IF item.status = "ok" THEN 1 ELSE 0])

\* One iteration of the loop of parse_items, the cursor at pos
ParseItem(buf, pos, header) ==
    IF pos + 16 > Len(buf)
    THEN ItemAppended(PastEnd(buf, pos))
    ELSE IF IntAt(buf, pos) \in {XML_START_TAG, XML_START_END_TAG}
    THEN ItemAppended(XMLTagInit(buf, pos + 16, header, IntAt(buf, pos) = XML_START_TAG))
    ELSE IF IntAt(buf, pos) = XML_END_DOC_TAG
    THEN [pos |-> pos + 16, status |-> "returned", appended |-> 0]
    ELSE IF IntAt(buf, pos) \in {START_NS, END_NS}
    THEN ItemAppended(NSRecordInit(buf, pos + 16))
    ELSE [pos |-> pos + 16, status |-> "Exception", appended |-> 0]

\* The words of an attribute record
AttrWords(ns, name, val, resourceId) == <<ns, name, val, 0, resourceId>>

\* The element records the files are made of
Records ==
    { Words(<<XML_START_TAG, 0, 0, 0, -1, 0, 0, -1, 0>>),
      Words(<<XML_START_TAG, 0, 0, 0, 0, 1, 0, 1, 0>> \o AttrWords(-1, 1, 0, 0)),
      Words(<<XML_START_TAG, 0, 0, 0, -1, 5, 0, 1000, 0>> \o AttrWords(-1, 5, -1, 5)),
      Words(<<XML_START_END_TAG, 0, 0, 0, -1, 1>>),
      Words(<<START_NS, 0, 0, 0, 0, 1>>),
      Words(<<XML_END_DOC_TAG, 0, 0, 0>>),
      Words(<<7, 0, 0, 0>>),
      <<2, 1, 16>> }

MaxRecords == 3     \* the most element records a file holds

\* The string pools of the files with element records: those of two strings
ItemPools == {pool \in StringPools : Len(pool.offsets) = 2}

\* The runs of at most n element records
RECURSIVE Bodies(_)
Bodies(n) ==
    IF n = 0 THEN {<<>>}
    ELSE Bodies(n - 1) \cup {record \o body : record \in Records, body \in Bodies(n - 1)}

InitItems ==
    /\ files = DexFiles
    /\ parsers = [p \in Parsers |-> NoParser]
    /\ Item_string_ids = NoFile
    /\ Item_type_ids = NoFile
    /\ default_descriptors = DEFAULT_DESCRIPTORS
    /\ tempdirs = 0
    /\ last = [op |-> "none"]
    /\ leb = LebIdle
    /\ \E pool \in ItemPools, body \in Bodies(MaxRecords) :
          stream = [buf |-> AxmlFile(pool, 0, 0, 0, body),
                    start |-> 0, pos |-> 0, op |-> "none", status |-> "ready"]

\* The stream after an iteration of the loop of parse_items ended as r
ParseItemsAfter(items, r) ==
    /\ stream' = With(r, LAMBDA item :
                      [buf |-> stream.buf, start |-> stream.start, pos |-> item.pos,
                       op |-> "parse_items", status |-> item.status,
                       header |-> stream.header, items |-> items + item.appended])
    /\ UNCHANGED <<files, parsers, Item_string_ids, Item_type_ids, default_descriptors, tempdirs, last, leb>>

\* parser.parse_items(bytestream) enters its loop: the first iteration
ParseItemsFirst ==
    /\ stream.op = "Header" /\ stream.status = "ok"
    /\ ParseItemsAfter(0, ParseItem(stream.buf, stream.pos, stream.header))

\* The loop of parse_items goes round again
ParseItemsAgain ==
    /\ stream.op = "parse_items" /\ stream.status = "parsing"
    /\ ParseItemsAfter(stream.items, ParseItem(stream.buf, stream.pos, stream.header))

NextItems ==
    \/ HeaderInit
    \/ ParseItemsFirst
    \/ ParseItemsAgain

SpecItems == InitItems /\ [][NextItems]_vars

\* A call that has started runs on: the interpreter does not stop in a loop.
SpecItemsFair == SpecItems /\ WF_vars(NextItems)


(***************************************************************************)
(* Properties.                                                             *)
(***************************************************************************)

\* C1: no call of DexParser.parse or AXMLParser.parse ends with the scratch directory
\* it created still existing, whether the call returned or raised.
C1_ScratchDeleted ==
    last.op \in {"DexParser.parse", "AXMLParser.parse"} => ~last.tempd_exists

\* C2: every descriptor and method name resolved for a live parser's class definitions,
\* annotations and methods is looked up in that parser's own type and string pools,
\* whichever parser was constructed last.
C2_OwnPools ==
    \A p \in Parsers :
        parsers[p].file # NoFile =>
            LET bs == parsers[p].file
            IN  /\ \A k \in 1..Len(Dex(bs).class_defs) :
                       Descriptor(bs, Dex(bs).class_defs[k].class_index,
                                  Item_type_ids, Item_string_ids)
                           = OwnDescriptor(bs, Dex(bs).class_defs[k])
                /\ \A off \in DOMAIN Dex(bs).annotation_items :
                       Descriptor(bs, Dex(bs).annotation_items[off].type_index,
                                  Item_type_ids, Item_string_ids)
                           = OwnDescriptor(bs, [class_index |->
                                                  Dex(bs).annotation_items[off].type_index])
                /\ \A m \in 0..(Len(Dex(bs).method_ids) - 1) :
                       MethodName(bs, m, Item_string_ids) = MethodName(bs, m, bs)

\* C3: two calls of find_junit3_tests() with the default descriptors, one right after
\* the other over the same dex file, return the same set.
C3_Repeatable ==
    [][ ( /\ last.op = "find_junit3_tests" /\ last.status = "ok"
          /\ last'.op = "find_junit3_tests" /\ last'.status = "ok"
          /\ last'.parser = last.parser /\ last'.file = last.file )
        => last'.result = last.result ]_vars

\* '<dot.separated.class>#<method_name>'
IsQualifiedTestName(id) ==
    \E i \in 2..(Len(id) - 1) :
        /\ id[i] = "#"
        /\ \A j \in 1..Len(id) : id[j] = "#" => j = i
        /\ \A j \in 1..(i - 1) : id[j] \notin {"/", ";"}

\* C4: every identifier DexParser.parse returns has the form
\* '<dot.separated.class>#<method_name>'.
C4_QualifiedNames ==
    (last.op = "DexParser.parse" /\ last.status = "ok") =>
        \A id \in BagToSet(last.result) : IsQualifiedTestName(id)

\* The method names of an annotations directory that carry an annotation whose
\* descriptor is target.
AnnotatedWith(bs, directory, target, tpool, spool) ==
    { MethodName(bs, directory.method_annotations[i].index, spool) : i \in
        { j \in DOMAIN directory.method_annotations :
            LET off == directory.method_annotations[j].annotations_offset
            IN  /\ off # 0
                /\ off \in DOMAIN Dex(bs).annotation_sets
                /\ \E e \in Range(Dex(bs).annotation_sets[off]) :
                       /\ e \in DOMAIN Dex(bs).annotation_items
                       /\ Descriptor(bs, Dex(bs).annotation_items[e].type_index, tpool, spool)
                              = target } }

\* The dot-separated name of the k-th class def of the last call's parser, as resolved.
LastClassName(k) ==
    Descriptor2Name(Descriptor(last.file, Dex(last.file).class_defs[k].class_index,
                               Item_type_ids, Item_string_ids))

LastDirectory(k) ==
    Dex(last.file).annotations_directories[Dex(last.file).class_defs[k].annotations_offset]

LastTestSet(k) ==
    AnnotatedWith(last.file, LastDirectory(k), test_annotation_descriptor,
                  Item_type_ids, Item_string_ids)

LastIgnoreSet(k) ==
    AnnotatedWith(last.file, LastDirectory(k), ignored_annotation_descriptor,
                  Item_type_ids, Item_string_ids)

\* C5: find_junit4_tests returns, for the admitted classes with annotations, exactly
\* '<class>#<m>' for the method names m that carry Lorg/junit/Test; and do not carry
\* Lorg/junit/Ignore;, and nothing that names a method of the class's Ignore set.
C5_TestNotIgnored ==
    (last.op = "find_junit4_tests" /\ last.status = "ok") =>
        /\ last.admitted \subseteq AnnotatedClassDefs(last.file)
        /\ last.result =
               UNION { { Qualified(LastClassName(k), m) : m \in LastTestSet(k) \ LastIgnoreSet(k) }
                       : k \in last.admitted }
        /\ \A k \in last.admitted : \A m \in LastIgnoreSet(k) :
               Qualified(LastClassName(k), m) \notin last.result

C5_Witness ==
    /\ last.op = "find_junit4_tests" /\ last.status = "ok"
    /\ last.result # {}
    /\ \E k \in last.admitted : LastTestSet(k) \cap LastIgnoreSet(k) # {}

\* The class defs the filter of the last discovery call was applied to.
LastFiltered ==
    IF last.op = "find_junit3_tests" THEN Range(last.matching)
    ELSE AnnotatedClassDefs(last.file)

LastFilters == parsers[last.parser].filters

\* C6 as stated: in find_junit3_tests and in find_junit4_tests alike, with a non-empty
\* filter list a class is admitted iff some filter string contains the class's name;
\* with an empty list every class is admitted.
C6_FilterContainsName ==
    (last.op \in {"find_junit3_tests", "find_junit4_tests"} /\ last.status = "ok") =>
        \A k \in LastFiltered :
            k \in last.admitted <=>
                \/ LastFilters = <<>>
                \/ \E f \in Range(LastFilters) : IsSubstring(LastClassName(k), f)

\* C6 as amended: find_junit3_tests admits a class iff some filter string contains the
\* class's name, find_junit4_tests admits it iff some filter string occurs in the
\* class's name; with an empty list every class is admitted.
C6_FilterDirections ==
    (last.op \in {"find_junit3_tests", "find_junit4_tests"} /\ last.status = "ok") =>
        \A k \in LastFiltered :
            k \in last.admitted <=>
                \/ LastFilters = <<>>
                \/ /\ last.op = "find_junit3_tests"
                   /\ \E f \in Range(LastFilters) : IsSubstring(LastClassName(k), f)
                \/ /\ last.op = "find_junit4_tests"
                   /\ \E f \in Range(LastFilters) : IsSubstring(f, LastClassName(k))

C6_Witness ==
    /\ last.op = "find_junit4_tests" /\ last.status = "ok"
    /\ LastFilters # <<>>
    /\ \E k \in last.admitted :
           /\ \E f \in Range(LastFilters) : IsSubstring(f, LastClassName(k))
           /\ \A f \in Range(LastFilters) : ~IsSubstring(LastClassName(k), f)

\* The .dex entries of the APK of the last parse call.
LastDexEntries ==
    { Apk(last.apk).entries[i].dex : i \in
        { j \in DOMAIN Apk(last.apk).entries :
            EndsWith(Apk(last.apk).entries[j].filename, DotDex) } }

\* The annotated tests of the k-th class def of dex file bs when no filter is given.
UnfilteredJunit4Tests(bs, k) ==
    Junit4ClassTests(bs, Dex(bs).class_defs[k], <<>>, bs, bs)

\* C7: DexParser.parse with a non-empty filter list returns the annotated tests of a
\* class iff some filter string occurs in the class's dot-separated name: then all of
\* them, as without a filter; otherwise none of them.
C7_ParseFilter ==
    (last.op = "DexParser.parse" /\ last.status = "ok") =>
        \A bs \in LastDexEntries : \A k \in AnnotatedClassDefs(bs) :
            LET name == Descriptor2Name(OwnDescriptor(bs, Dex(bs).class_defs[k]))
            IN  IF \/ last.filters = <<>>
                   \/ \E f \in Range(last.filters) : IsSubstring(f, name)
                THEN UnfilteredJunit4Tests(bs, k) \subseteq BagToSet(last.result)
                ELSE \A id \in BagToSet(last.result) : ~StartsWith(id, name \o <<"#">>)

C7_Witness ==
    /\ last.op = "DexParser.parse" /\ last.status = "ok"
    /\ last.filters = << <<"a">> >>
    /\ \E bs \in LastDexEntries : \E k \in AnnotatedClassDefs(bs) :
           /\ UnfilteredJunit4Tests(bs, k) # {}
           /\ UnfilteredJunit4Tests(bs, k) \subseteq BagToSet(last.result)
    /\ \E bs \in LastDexEntries : \E k \in AnnotatedClassDefs(bs) :
           /\ UnfilteredJunit4Tests(bs, k) # {}
           /\ UnfilteredJunit4Tests(bs, k) \cap BagToSet(last.result) = {}

\* C8: a call of find_classes_directly_inherited_from records a class def iff it has a
\* superclass (super_class_index >= 0) whose descriptor, as super_descriptor() resolves
\* it, is in the descriptor list as it was when the call began; each class def is
\* recorded once, in table order, and the descriptor of every recorded class is
\* appended to the list.
C8_SingleHop ==
    (last.op = "find_classes_directly_inherited_from" /\ last.status = "ok") =>
        LET defs == Dex(last.file).class_defs
            resolved == parsers[last.parser].super_cache
        IN  /\ \A k \in 1..Len(defs) :
                   (\E i \in DOMAIN last.matching : last.matching[i] = k)
                       <=> (defs[k].super_class_index >= 0
                            /\ resolved[k] \in Range(last.before))
            /\ \A i, j \in DOMAIN last.matching : i < j => last.matching[i] < last.matching[j]
            /\ Len(last.after) = Len(last.before) + Len(last.matching)
            /\ SubSeq(last.after, 1, Len(last.before)) = last.before
            /\ \A i \in DOMAIN last.matching :
                   last.after[Len(last.before) + i]
                       = OwnDescriptor(last.file, defs[last.matching[i]])

\* A class def that comes after the class def of its superclass, which the call
\* recorded, is not recorded itself.
C8_Witness ==
    /\ last.op = "find_classes_directly_inherited_from" /\ last.status = "ok"
    /\ \E k \in 1..Len(Dex(last.file).class_defs) : \E i \in DOMAIN last.matching :
           /\ last.matching[i] < k
           /\ Dex(last.file).class_defs[k].super_class_index >= 0
           /\ parsers[last.parser].super_cache[k] = last.after[Len(last.before) + i]
           /\ parsers[last.parser].super_cache[k] \notin Range(last.before)
           /\ \A j \in DOMAIN last.matching : last.matching[j] # k

RECURSIVE LebLow(_, _, _)
LebLow(buf, start, n) ==
    IF n = 0 THEN 0
    ELSE LebLow(buf, start, n - 1) + (buf[start + n] % 128) * 128^(n - 1)

LebSum(buf, start, n) ==
    IF n = 5 THEN Wide(buf[start + 5] % 128, LebLow(buf, start, 4))
    ELSE Wide(0, LebLow(buf, start, n))

\* The first n bytes after position start are a LEB128 sequence: only the last one has
\* its high bit clear.
IsLebSequence(buf, start, n) ==
    /\ start + n <= Len(buf)
    /\ buf[start + n] < 128
    /\ \A i \in 1..(n - 1) : buf[start + i] >= 128

\* C10: read_leb128 over a sequence of 1 to 5 bytes of which only the last has its high
\* bit clear returns the sum of (b_i & 0x7f) << (7 * i) and leaves the cursor right
\* after the sequence; over five bytes that all have their high bit set it fails.
C10_Leb128 ==
    leb.status \notin {"idle", "ready"} =>
        /\ \A n \in 1..5 :
               IsLebSequence(leb.buf, leb.start, n) =>
                   /\ leb.status = "ok"
                   /\ leb.value = LebSum(leb.buf, leb.start, n)
                   /\ leb.pos = leb.start + n
        /\ ( /\ leb.start + 5 <= Len(leb.buf)
             /\ \A i \in 1..5 : leb.buf[leb.start + i] >= 128 )
               => leb.status = "Exception"

C10_Witness ==
    /\ leb.status = "ok"
    /\ leb.pos = leb.start + 5
    /\ leb.value.hi = 127
    /\ leb.pos < Len(leb.buf)

\* What was left in the file, from the cursor on, when the last read began.
StreamRemaining == Len(stream.buf) - stream.start

\* C11: a ByteStream read that asks for more bytes than remain in the file fails;
\* read_bytes(n) and read_fixed_string(n), when they return, return n bytes.
C11_ShortReadFails ==
    stream.op \notin {"none", "read"} =>
        /\ stream.count > StreamRemaining => stream.status # "ok"
        /\ (stream.op \in {"read_bytes", "read_fixed_string"} /\ stream.status = "ok")
               => Len(stream.value) = stream.count

\* The file position of the first NUL at or after the position the last read began at
\* (the NUL is the byte at index StreamFirstNul + 1), or -1 when there is none.
StreamFirstNul ==
    IF \E i \in (stream.start + 1)..Len(stream.buf) : stream.buf[i] = 0
    THEN (CHOOSE i \in (stream.start + 1)..Len(stream.buf) :
              stream.buf[i] = 0 /\ \A j \in (stream.start + 1)..(i - 1) : stream.buf[j] # 0) - 1
    ELSE -1

\* C12: read_string begun at position p returns the bytes from p up to, not including,
\* the first NUL, however long that is, and leaves the cursor immediately past that NUL.
C12_ReadStringPastNul ==
    (stream.op = "read_string" /\ StreamFirstNul >= 0) =>
        /\ stream.status = "ok"
        /\ stream.value = SubSeq(stream.buf, stream.start + 1, StreamFirstNul)
        /\ stream.pos = StreamFirstNul + 1

\* What read_string does: the value is as C12 says, the cursor is left on the NUL.
ReadStringStopsOnNul ==
    (stream.op = "read_string" /\ StreamFirstNul >= 0) =>
        /\ stream.status = "ok"
        /\ stream.value = SubSeq(stream.buf, stream.start + 1, StreamFirstNul)
        /\ stream.pos = StreamFirstNul

RECURSIVE OpenTagWalk(_, _, _, _)
\* A walk over the records from index i on that keeps the start tags not yet closed in
\* open, innermost last, and ends when the tag closed is the only one open; parent
\* gives, for each start tag met, the innermost tag open when it was met.
OpenTagWalk(tags, i, open, parent) ==
    IF i > Len(tags) \/ open = <<>> THEN parent
    ELSE IF tags[i].is_start_tag
    THEN OpenTagWalk(tags, i + 1, Append(open, i), [parent EXCEPT ![i] = open[Len(open)]])
    ELSE OpenTagWalk(tags, i + 1, SubSeq(open, 1, Len(open) - 1), parent)

\* The tree of the last parser is the one the walk from root gives: each tag's parent,
\* and each tag's children in the order of the records.
TreeIsWalkFrom(root) ==
    LET expected == OpenTagWalk(last.xml_tag_list, root + 1, <<root>>,
                                [k \in 1..Len(last.xml_tag_list) |-> 0])
    IN  /\ last.xml_tag = root
        /\ last.parent = expected
        /\ \A k \in 1..Len(last.xml_tag_list) :
               /\ {last.children[k][j] : j \in 1..Len(last.children[k])}
                      = {i \in 1..Len(last.xml_tag_list) : expected[i] = k}
               /\ \A j \in 1..(Len(last.children[k]) - 1) : last.children[k][j] < last.children[k][j + 1]

\* The index of the first START_TAG record of the last parser's list, 0 when there is none.
FirstStartTag ==
    IF \E i \in 1..Len(last.xml_tag_list) : last.xml_tag_list[i].is_start_tag
    THEN CHOOSE i \in 1..Len(last.xml_tag_list) :
             last.xml_tag_list[i].is_start_tag /\ \A j \in 1..(i - 1) : ~last.xml_tag_list[j].is_start_tag
    ELSE 0

\* C14: the first START_TAG is the root; each later START_TAG met before the root is
\* closed is the last child of the innermost start tag not yet closed and has it as its
\* parent_tag; an END_TAG moves to the parent; after an END_TAG met at the root no
\* later tag is attached.
C14_TreeConstruction ==
    (last.op = "AXMLParser" /\ FirstStartTag # 0) => TreeIsWalkFrom(FirstStartTag)

\* What the code builds: the same tree, the root being the first tag record whether it
\* is a START_TAG or an END_TAG.
TreeRootIsFirstRecord ==
    (last.op = "AXMLParser" /\ Len(last.xml_tag_list) > 0) => TreeIsWalkFrom(1)

\* The children of the root of the last parser's tree that are named name, as indexes
\* into the root's list of children.
RootChildrenNamed(name) ==
    {j \in 1..Len(last.children[1]) : last.xml_tag_list[last.children[1][j]].name = name}

\* The last child of the root that is named name: the one whose record stays.
LastRootChildNamed(name) ==
    last.xml_tag_list[last.children[1][CHOOSE j \in RootChildrenNamed(name) :
                                           \A k \in RootChildrenNamed(name) : k <= j]]

\* The tag carries the attribute key with the value "true".
HasTrueAttribute(tag, key) ==
    \E i \in 1..Len(tag.attributes) : tag.attributes[i].name = key /\ tag.attributes[i].value = "true"

\* A parser was built over a list whose root is a manifest tag.
ManifestParsed ==
    /\ last.op = "AXMLParser"
    /\ Len(last.xml_tag_list) > 0
    /\ last.xml_tag_list[1].name = "manifest"

\* C15: for an instrumentation child of the manifest root, functional_test is true iff
\* the attribute functionalTest is present with the value "true", and handle_profiling
\* is true iff handleProfiling is present with the value "true".
C15_BooleanAttributes ==
    (ManifestParsed /\ last.status = "ok" /\ RootChildrenNamed("instrumentation") # {}) =>
        /\ last.instrumentation # None
        /\ last.instrumentation[1].functional_test
               <=> HasTrueAttribute(LastRootChildNamed("instrumentation"), "functionalTest")
        /\ last.instrumentation[1].handle_profiling
               <=> HasTrueAttribute(LastRootChildNamed("instrumentation"), "handleProfiling")

\* C16: over a manifest root the records are built whatever attribute is missing: the
\* call completes, a uses-sdk child yields a uses_sdk record, every uses-permission
\* child an entry of permissions, an instrumentation child an instrumentation record.
C16_MissingAttributes ==
    ManifestParsed =>
        /\ last.status = "ok"
        /\ RootChildrenNamed("uses-sdk") # {} => last.uses_sdk # None
        /\ Len(last.permissions) = Cardinality(RootChildrenNamed("uses-permission"))
        /\ RootChildrenNamed("instrumentation") # {} => last.instrumentation # None

\* C17: what DexParser.parse returns over several .dex files is a set: an identifier
\* found in more than one .dex file, or more than once in one, is in the result once.
C17_ResultIsSet ==
    (last.op = "DexParser.parse" /\ last.status = "ok") =>
        \A id \in BagToSet(last.result) : CopiesIn(id, last.result) = 1

\* The method names of an annotations directory that carry an annotation whose
\* descriptor is target, an offset of 0 standing for no annotation set and no annotation.
AnnotatedWithPresent(bs, directory, target) ==
    { MethodName(bs, directory.method_annotations[i].index, bs) : i \in
        { j \in DOMAIN directory.method_annotations :
            /\ directory.method_annotations[j].annotations_offset # 0
            /\ \E e \in Range(Dex(bs).annotation_sets[directory.method_annotations[j].annotations_offset]) :
                   /\ e # 0
                   /\ Descriptor(bs, Dex(bs).annotation_items[e].type_index, bs, bs) = target } }

\* The test names of the k-th class def of the last file, none when it has no class data.
PresentTestNames(k) ==
    IF Dex(last.file).class_defs[k].class_data_offset = 0 THEN {}
    ELSE { m \in Range(VirtualMethodNames(last.file,
                           Dex(last.file).class_data[Dex(last.file).class_defs[k].class_data_offset].virtual_methods,
                           last.file)) : StartsWith(m, <<"t","e","s","t">>) }

\* C18: an offset of 0 means absent and nothing is decoded at file offset 0: a recorded
\* JUnit3 class whose class_data_offset is 0 contributes no method names, a method
\* annotation whose annotations_offset is 0 is skipped, and an entry of an annotation
\* set whose annotation_offset is 0 is skipped; the calls complete.
C18_ZeroOffsetAbsent ==
    /\ last.op = "find_junit3_tests" =>
           /\ last.status = "ok"
           /\ last.result = UNION { PresentTestNames(k) : k \in last.admitted }
    /\ last.op = "find_junit4_tests" =>
           /\ last.status = "ok"
           /\ last.result =
                  UNION { { Qualified(LastClassName(k), m) :
                              m \in AnnotatedWithPresent(last.file, LastDirectory(k), test_annotation_descriptor)
                                    \ AnnotatedWithPresent(last.file, LastDirectory(k), ignored_annotation_descriptor) }
                          : k \in last.admitted }

\* What the code does with a method annotation whose annotations_offset is 0: the
\* method is left out and the call completes.
MethodAnnotationOffsetZeroSkipped ==
    (last.op = "find_junit4_tests" /\ last.file = "classes2.dex") =>
        /\ last.status = "ok"
        /\ \A id \in last.result : ~EndsWith(id, <<"t","e","s","t","R">>)

\* The value_arg and the value_type of the header byte the last decoding began at.
LastValueArg == stream.buf[stream.start + 1] \div 32

LastValueType == stream.buf[stream.start + 1] % 32

\* The payload sizes of the encoding table of the fixed-size value types.
TablePayload ==
    (VALUE_BYTE :> 1) @@ (VALUE_SHORT :> 2) @@ (VALUE_INT :> 4) @@ (VALUE_LONG :> 8)
    @@ (VALUE_FLOAT :> 4) @@ (VALUE_DOUBLE :> 8) @@ (VALUE_NULL :> 0)

\* C19: decoding an EncodedValue of type BYTE, SHORT, INT, LONG, FLOAT, DOUBLE or NULL
\* from a file that holds the bytes moves the cursor by the header byte and a payload of
\* 1, 2, 4, 8, 4, 8 and 0 bytes.
C19_FixedPayload ==
    ( /\ stream.op = "EncodedValue"
      /\ LastValueType \in DOMAIN TablePayload
      /\ stream.start + 1 + TablePayload[LastValueType] <= Len(stream.buf) ) =>
        /\ stream.status = "ok"
        /\ stream.pos = stream.start + 1 + TablePayload[LastValueType]

\* The value_arg with which a value of the type fills its full width.
FullWidthArg ==
    (VALUE_BYTE :> 0) @@ (VALUE_SHORT :> 1) @@ (VALUE_INT :> 3) @@ (VALUE_LONG :> 7)
    @@ (VALUE_FLOAT :> 3) @@ (VALUE_DOUBLE :> 7)

\* C19, for full-width values: decoding an EncodedValue of type BYTE, SHORT, INT, LONG,
\* FLOAT or DOUBLE whose value_arg is 0, 1, 3, 7, 3, 7, or of type NULL with any
\* value_arg, completes exactly when the file holds the payload, and then has moved the
\* cursor by the header byte and a payload of 1, 2, 4, 8, 4, 8 and 0 bytes.
C19_FullWidthPayload ==
    ( /\ stream.op = "EncodedValue"
      /\ LastValueType \in DOMAIN TablePayload
      /\ LastValueType # VALUE_NULL => LastValueArg = FullWidthArg[LastValueType] ) =>
        /\ stream.status = "ok" <=> stream.start + 1 + TablePayload[LastValueType] <= Len(stream.buf)
        /\ stream.status = "ok" => stream.pos = stream.start + 1 + TablePayload[LastValueType]

\* A DOUBLE of full width decoded from a file that holds its eight bytes and one more.
C19_Witness ==
    /\ stream.op = "EncodedValue"
    /\ LastValueType = VALUE_DOUBLE /\ LastValueArg = 7
    /\ stream.status = "ok" /\ stream.pos = 9 /\ Len(stream.buf) = 10

\* What the code does for these types: the payload is value_arg + 1 bytes, or what is
\* left of the file when it is shorter and value_arg + 1 is not the full width; NULL
\* has none.
PayloadIsArgPlusOne ==
    ( /\ stream.op = "EncodedValue"
      /\ LastValueType \in DOMAIN TablePayload
      /\ stream.status = "ok" ) =>
        stream.pos = IF LastValueType = VALUE_NULL THEN stream.start + 1
                     ELSE Min(stream.start + 1 + LastValueArg + 1, Len(stream.buf))

\* C20: decoding an EncodedValue of type BOOLEAN reads no payload, whatever value_arg
\* is, and gives true iff value_arg is not 0.
C20_BooleanNoPayload ==
    (stream.op = "EncodedValue" /\ LastValueType = VALUE_BOOLEAN) =>
        /\ stream.status = "ok"
        /\ stream.pos = stream.start + 1
        /\ stream.value = (LastValueArg # 0)

\* C21: once AXMLParser.Header has read the offset tables and skipped the string raw
\* data and the style raw data, the cursor is at file offset 8 + string_chunk_size,
\* where the resource chunk tag is read, whether style_raw_data_offset is 0 or not.
C21_CursorAtChunkEnd ==
    (stream.op = "Header" /\ stream.tag_pos >= 0)
        => stream.tag_pos = 8 + stream.string_chunk_size

\* The same with no style raw data offset in the header
CursorAtChunkEndNoStyles ==
    (stream.op = "Header" /\ stream.tag_pos >= 0 /\ stream.header.style_raw_data_offset = 0
       /\ stream.status = "ok")
        => stream.tag_pos = 8 + stream.string_chunk_size

\* C22: AXMLParser._get_string leaves the cursor of the byte stream where it was, for
\* a negative string index, an index in the offset table and an index beyond it, also
\* when decoding the string item raises.
C22_GetStringKeepsCursor ==
    [][stream'.op = "_get_string" => stream'.pos = stream.pos]_vars

\* _get_string was called after a seek, went to a string item whose decoding raised,
\* and the cursor is back where the seek had left it
C22_Witness ==
    /\ stream.op = "_get_string"
    /\ stream.status = "UnicodeDecodeError"
    /\ stream.item_end # stream.pos
    /\ stream.pos = 38

\* An iteration of parse_items never moves the cursor backward, and it moves it by 16
\* bytes or more unless a read past the end of the file ends it
ItemsCursorAdvances ==
    [][stream'.op = "parse_items"
         => /\ stream'.pos >= stream.pos
            /\ (stream'.status # "struct.error" => stream'.pos >= stream.pos + 16)]_vars

\* The decoding of the file has ended: the header was refused, or parse_items returned
\* or raised
ItemsEnded ==
    \/ stream.op = "Header" /\ stream.status # "ok"
    \/ stream.op = "parse_items" /\ stream.status # "parsing"

\* C23: parse_items terminates on every file: an iteration moves the cursor by 16 bytes
\* or more and never backward, and the loop ends with a record of tag 0x00100101, with
\* an error on an unknown record tag, or with an error on a read past the end of the file.
C23_EndsInOneOfThreeWays ==
    /\ ItemsCursorAdvances
    /\ <>ItemsEnded
    /\ [](stream.op = "parse_items"
            => stream.status \in {"parsing", "returned", "Exception", "struct.error"})

\* C23, amended: parse_items terminates on every file: an iteration moves the cursor by
\* 16 bytes or more and never backward, and the loop ends with a record of tag 0x00100101,
\* with an error on an unknown record tag, with an error on a read past the end of the
\* file, or with the error of a string item that cannot be reached or decoded.
C23_Terminates ==
    /\ ItemsCursorAdvances
    /\ <>ItemsEnded
    /\ [](stream.op = "parse_items"
            => stream.status \in {"parsing", "returned", "Exception", "struct.error",
                                  "UnicodeDecodeError", "ValueError", "OSError"})

\* parse_items returned two items at a record of tag 0x00100101 that ends the file
C23_Witness ==
    /\ stream.op = "parse_items"
    /\ stream.status = "returned"
    /\ stream.items = 2
    /\ stream.pos = Len(stream.buf)

====
